---- MODULE Spec2Model ----
(***************************************************************************)
(* Numbering, stock-ledger and document-total logic of the back-office     *)
(* application: the SQL number generators, the document hooks that call    *)
(* them, the stock-movement hook and the order forms.                      *)
(*                                                                         *)
(* Text values (document numbers) are sequences of one-character strings,  *)
(* so that the regular expressions, SUBSTRING, CAST and LPAD of the SQL    *)
(* functions are computed character by character.                          *)
(***************************************************************************)
EXTENDS Integers, Sequences, FiniteSets, TLC

(***************************************************************************)
(* Text helpers                                                            *)
(***************************************************************************)
DigitChars == <<"0", "1", "2", "3", "4", "5", "6", "7", "8", "9">>

IsDigit(c) == \E i \in 1..10 : DigitChars[i] = c

DigitVal(c) == (CHOOSE i \in 1..10 : DigitChars[i] = c) - 1

AllDigits(s) == \A i \in 1..Len(s) : IsDigit(s[i])

\* PostgreSQL INTEGER is 32-bit signed.
IntMax == 2147483647

IntMaxText == <<"2", "1", "4", "7", "4", "8", "3", "6", "4", "7">>

RECURSIVE StripZeros(_)
StripZeros(s) ==
    IF Len(s) > 1 /\ s[1] = "0" THEN StripZeros(Tail(s)) ELSE s

\* lexicographic s > t for digit strings of equal length
RECURSIVE DigitsGreater(_, _)
DigitsGreater(s, t) ==
    IF s = <<>> THEN FALSE
    ELSE IF s[1] # t[1] THEN DigitVal(s[1]) > DigitVal(t[1])
    ELSE DigitsGreater(Tail(s), Tail(t))

\* CAST(text AS INTEGER) raises 22003 when the value does not fit.
CastOutOfRange(s) ==
    LET z == StripZeros(s)
    IN  \/ Len(z) > 10
        \/ Len(z) = 10 /\ DigitsGreater(z, IntMaxText)

\* CAST(text AS INTEGER) of a digit string: leading zeros carry no value.
RECURSIVE CastInteger(_)
CastInteger(s) ==
    IF s = <<>> THEN 0
    ELSE CastInteger(SubSeq(s, 1, Len(s) - 1)) * 10 + DigitVal(s[Len(s)])

\* next_number::TEXT for a non-negative integer
RECURSIVE IntToText(_)
IntToText(n) ==
    IF n < 10 THEN <<DigitChars[n + 1]>>
    ELSE IntToText(n \div 10) \o <<DigitChars[(n % 10) + 1]>>

RECURSIVE Repeat(_, _)
Repeat(c, n) == IF n <= 0 THEN <<>> ELSE <<c>> \o Repeat(c, n - 1)

\* PostgreSQL LPAD(string, length, fill): pads on the left up to length and,
\* when the string is already longer than length, truncates it on the right.
LPAD(s, length, fill) ==
    IF Len(s) >= length THEN SubSeq(s, 1, length)
    ELSE Repeat(fill, length - Len(s)) \o s

\* SUBSTRING(string FROM n): the characters from position n (1-based) on.
SubstringFrom(s, n) == SubSeq(s, n, Len(s))

HasPrefixAt(s, p, i) ==
    /\ i + Len(p) - 1 <= Len(s)
    /\ \A k \in 1..Len(p) : s[i + k - 1] = p[k]

\* string ~ '^PREFIX[0-9]+$'
MatchesAnchored(s, p) ==
    /\ Len(s) > Len(p)
    /\ HasPrefixAt(s, p, 1)
    /\ AllDigits(SubSeq(s, Len(p) + 1, Len(s)))

\* length of the longest run of digits of s that starts at position i
RECURSIVE DigitRun(_, _)
DigitRun(s, i) ==
    IF i <= Len(s) /\ IsDigit(s[i]) THEN 1 + DigitRun(s, i + 1) ELSE 0

\* SUBSTRING(string FROM 'PREFIX(\d+)'): the parenthesised part of the
\* leftmost match of the pattern, greedy; NULL (here <<>>) without a match.
SubstringPattern(s, p) ==
    LET hits == {i \in 1..Len(s) :
                    HasPrefixAt(s, p, i) /\ DigitRun(s, i + Len(p)) > 0}
    IN  IF hits = {} THEN <<>>
        ELSE LET i == CHOOSE j \in hits : \A k \in hits : j <= k
             IN  SubSeq(s, i + Len(p), i + Len(p) + DigitRun(s, i + Len(p)) - 1)

SetMax(S) == CHOOSE m \in S : \A x \in S : x <= m

(***************************************************************************)
(* Sequence generator: the four SQL functions                              *)
(***************************************************************************)
INV == <<"I", "N", "V", "-">>
ORD == <<"O", "R", "D", "-">>
PAY == <<"P", "A", "Y", "-">>
PO  == <<"P", "O", "-">>

Families == {"INV", "ORD", "PAY", "PO"}

PrefixOf(f) ==
    CASE f = "INV" -> INV [] f = "ORD" -> ORD [] f = "PAY" -> PAY [] f = "PO" -> PO

WidthOf(f) == IF f = "PO" THEN 6 ELSE 3

\* Result of an rpc call: { data, error }.
Returned(v) == [ok |-> TRUE, val |-> v, err |-> "none"]
Raised(code) == [ok |-> FALSE, val |-> <<>>, err |-> code]

\* PL/pgSQL (plpgsql.variable_conflict = error, the default): a name in an
\* SQL statement of the function body that can be read both as a declared
\* variable and as a column of the queried table makes the statement fail
\* with 42702 "column reference is ambiguous" each time it is executed.
\* unqualified: the unqualified column names of the statement.
AmbiguousColumn(declared, unqualified) == declared \cap unqualified # {}

\* COALESCE(MAX(CAST(<suffix> AS INTEGER)), 0) + 1, then
\* prefix || LPAD(next_number::TEXT, width, '0'); suffixes are the texts
\* handed to CAST for the rows that pass the WHERE clause (NULLs left out).
NextNumber(suffixes, prefix, width) ==
    IF \E t \in suffixes : CastOutOfRange(t) THEN Raised("22003")
    ELSE LET vals == {CastInteger(t) : t \in suffixes}
             mx == IF vals = {} THEN 0 ELSE SetMax(vals)
         IN  IF mx = IntMax THEN Raised("22003")
             ELSE Returned(prefix \o LPAD(IntToText(mx + 1), width, "0"))

\* numbers: the invoice_number values of public.invoices
generate_invoice_number(numbers) ==
    IF AmbiguousColumn({"next_number", "invoice_number"}, {"invoice_number"})
    THEN Raised("42702")
    ELSE NextNumber({SubstringFrom(n, 5) : n \in {x \in numbers : MatchesAnchored(x, INV)}},
                    INV, 3)

\* numbers: the order_number values of public.sales_orders
generate_order_number(numbers) ==
    IF AmbiguousColumn({"next_number", "order_number"}, {"order_number"})
    THEN Raised("42702")
    ELSE NextNumber({SubstringFrom(n, 5) : n \in {x \in numbers : MatchesAnchored(x, ORD)}},
                    ORD, 3)

\* numbers: the payment_number values of public.payments
generate_payment_number(numbers) ==
    IF AmbiguousColumn({"next_number", "payment_number"}, {"payment_number"})
    THEN Raised("42702")
    ELSE NextNumber({SubstringFrom(n, 5) : n \in {x \in numbers : MatchesAnchored(x, PAY)}},
                    PAY, 3)

\* numbers: the po_number values of public.purchase_orders.  The variable is
\* v_po_number and the column is written po.po_number, so nothing is
\* ambiguous here.
generate_po_number(numbers) ==
    IF AmbiguousColumn({"next_number", "v_po_number"}, {})
    THEN Raised("42702")
    ELSE NextNumber({SubstringPattern(n, PO) : n \in {x \in numbers : MatchesAnchored(x, PO)}}
                        \ {<<>>},
                    PO, 6)

\* supabase.rpc('generate_..._number') for the family's table content
GenerateNumber(f, numbers) ==
    CASE f = "INV" -> generate_invoice_number(numbers)
      [] f = "ORD" -> generate_order_number(numbers)
      [] f = "PAY" -> generate_payment_number(numbers)
      [] f = "PO"  -> generate_po_number(numbers)

(***************************************************************************)
(* Bounds                                                                  *)
(***************************************************************************)
\* largest number of rows in a table the generator is applied to
MaxStore == 3

\* number of documents created in one run
MaxDocs == 2

\* largest number of line items of a created document
MaxItems == 1

\* largest stock level entered or stored
MaxStock == 1

\* number of stock movements recorded in one run
MaxMoves == 2

\* number of line items in an order dialog
MaxLines == 2

\* number of line items a caller passes to a create or update hook
MaxList == 2

\* number of header and item rows inserted after the initial ones
MaxRows == 2

\* number of invoices rows of the customer rollup
MaxInvoices == 2

\* the largest stock and low_stock_threshold of a product of the low-stock
\* report
MaxLevel == 2

(***************************************************************************)
(* State                                                                   *)
(***************************************************************************)
VARIABLES
    gfam,       \* generator alone: the family whose function is called
    gstore,     \* generator alone: the numbers persisted in that family's table
    gout,       \* generator alone: the rpc result, NotCalled before the call
    hdr,        \* [family -> set of persisted header rows [id, number]]
    itm,        \* [family -> set of persisted item rows [doc, line]]
    uuid,       \* the next fresh row id (gen_random_uuid)
    pc,         \* [client -> position inside its create operation]
    req,        \* [client -> the create operation in flight]
    issued,     \* [family -> numbers persisted by creates, in creation order]
    assigned,   \* [family -> numbers ever carried by a persisted document]
    sequential, \* no two creates overlapped and nothing was deleted so far
    started,    \* number of create operations started so far
    stock,      \* [product -> products.stock]
    mov,        \* the stock_movements rows, oldest first
    mid,        \* the next fresh stock movement id
    spc,        \* [client -> position inside createStockMovement]
    sreq,       \* [client -> the stock movement operation in flight]
    sel,        \* [client -> selectedProduct of the stock adjustment dialog]
    new_stock,  \* [client -> the dialog's new_stock field]
    fkind,      \* the order dialog that is open: "closed", "sales", "purchase"
    fedit,      \* the open dialog edits a stored order
    fitems,     \* the dialog's items field array
    ftax,       \* the dialog's tax_rate field
    forig,      \* the stored order the dialog shows while no field was changed
    sent,       \* what the dialog's last submit handed to the hook
    sfam,       \* the family whose tables and hooks the behaviour exercises
    docs,       \* the header rows of invoices, sales_orders, purchase_orders
    lines,      \* the rows of the three item tables
    nid,        \* the next fresh id of a header or item row
    pays,       \* ids of the invoices that payments rows reference
    op,         \* the document operation in flight
    invs,       \* the invoices rows the customer rollup reads
    cust,       \* [customer -> total_orders, total_spent, last_order_date]
    rlast,      \* the recomputations made in a row with no invoice change
    plist,      \* low-stock report: [product -> stock, low_stock_threshold]
    low,        \* low-stock report: the rpc result, NotCalled before the call
    role,       \* [user -> profiles.role]
    acc,        \* the last request made under row level security
    medit,      \* the edit dialog of a stock movement: the movement and the form
    view,       \* [session -> the statuses its purchase order list shows]
    pos,        \* financial report: the purchase_orders rows it reads
    fdata       \* financial report: what generateFinancialData returned last

gvars == <<gfam, gstore, gout>>

dvars == <<hdr, itm, uuid, pc, req, issued, assigned, sequential, started>>

svars == <<stock, mov, mid, spc, sreq, sel, new_stock>>

fvars == <<fkind, fedit, fitems, ftax, forig, sent>>

tvars == <<sfam, docs, lines, nid, pays, op>>

cvars == <<invs, cust, rlast>>

lvars == <<plist, low>>

avars == <<role, acc>>

evars == <<medit>>

qvars == <<view>>

nvars == <<pos, fdata>>

xvars == <<lvars, avars, evars, qvars, nvars>>

vars == <<gfam, gstore, gout, hdr, itm, uuid, pc, req, issued, assigned, sequential,
          started, stock, mov, mid, spc, sreq, sel, new_stock, fkind, fedit, fitems, ftax,
          forig, sent, sfam, docs, lines, nid, pays, op, invs, cust, rlast,
          plist, low, role, acc, medit, view,
          pos, fdata>>

NotCalled == [ok |-> FALSE, val |-> <<>>, err |-> "not called"]

Clients == {1, 2}

\* families whose documents are created through a hook that calls the
\* generator: createSalesOrder, createPurchaseOrder, createPayment
DocFamilies == {"ORD", "PO", "PAY"}

\* fam, nitems: the family and the number of line items of the create call;
\* number: the number the generator returned; id: the id of the inserted
\* header; error: the error the operation threw.  History: stale (the table
\* changed after this operation read the generator), calls (storage calls
\* issued), wrote (rows written).
NoRequest == [fam |-> "none", nitems |-> 0, number |-> <<>>, id |-> 0,
              error |-> "none", stale |-> FALSE, calls |-> 0, wrote |-> 0]

\* the document part of the state when no document operation is modelled
DocIdle ==
    /\ hdr = [f \in DocFamilies |-> {}]
    /\ itm = [f \in DocFamilies |-> {}]
    /\ uuid = 1
    /\ pc = [c \in Clients |-> "idle"]
    /\ req = [c \in Clients |-> NoRequest]
    /\ issued = [f \in DocFamilies |-> <<>>]
    /\ assigned = [f \in DocFamilies |-> {}]
    /\ sequential = TRUE
    /\ started = 0

Products == {"p1"}

\* stock levels a caller can pass or type; products.stock, stock_before and
\* stock_after are INTEGER columns without a CHECK constraint
StockValues == (0 - 1)..MaxStock

NoSelection == [set |-> FALSE, id |-> "none", stock |-> 0]

\* data: the movementData payload; rowid: id of the inserted row; via: the
\* entry point of the call ("form", "adjustment", "movement"); currentStock,
\* newStock: the arguments of createStockAdjustment; error: the error thrown
NoMovement == [product |-> "none", movement_type |-> "none", quantity_change |-> 0,
               stock_before |-> 0, stock_after |-> 0]

NoStockRequest == [data |-> NoMovement, rowid |-> 0, via |-> "none",
                   currentStock |-> 0, newStock |-> 0, error |-> "none"]

\* the stock part of the state when no stock operation is modelled
StockIdle ==
    /\ stock = [p \in Products |-> 0]
    /\ mov = <<>>
    /\ mid = 1
    /\ spc = [c \in Clients |-> "idle"]
    /\ sreq = [c \in Clients |-> NoStockRequest]
    /\ sel = [c \in Clients |-> NoSelection]
    /\ new_stock = [c \in Clients |-> 0]

\* no stored order is shown unchanged: the dialog is closed, creates an
\* order, or a field was changed since it opened
NoOriginal == [set |-> FALSE, subtotal |-> 0, tax_amount |-> 0, total_amount |-> 0,
               items |-> <<>>]

\* state: "none" (nothing submitted), "invalid" (the submit was stopped by
\* the form's schema), "sent" (the payload was handed to createSalesOrder /
\* updateSalesOrder or createPurchaseOrder / updatePurchaseOrder)
NotSent == [state |-> "none", kind |-> "closed", edit |-> FALSE, tax_rate |-> 0,
            subtotal |-> 0, tax_amount |-> 0, total_amount |-> 0, items |-> <<>>,
            orig |-> NoOriginal]

\* the order dialogs when no order form is modelled
FormIdle ==
    /\ fkind = "closed"
    /\ fedit = FALSE
    /\ fitems = <<>>
    /\ ftax = 0
    /\ forig = NoOriginal
    /\ sent = NotSent

\* name: the hook; step: the storage call that comes next ("done", "failed"
\* once it returned or threw); hasItems, items, totals, status: the payload;
\* error: what was thrown.  History: before (the document's item rows when the
\* call started), hdr0 (its header then), deleteError (the delete of the items
\* failed)
NoOp == [name |-> "none", fam |-> "none", id |-> 0, step |-> "idle", hasItems |-> FALSE,
         items |-> <<>>, totals |-> [subtotal |-> 0, taxAmount |-> 0, total |-> 0], status |-> "none",
         error |-> "none", before |-> {}, hdr0 |-> {}, deleteError |-> FALSE]

Customers == {"A", "B"}

\* a customers row before any invoice: total_orders 0, total_spent 0,
\* last_order_date NULL (0 stands for NULL, dates are 1, 2, ...)
NoOrders == [total_orders |-> 0, total_spent |-> 0, last_order_date |-> 0]

\* runs: recomputations made in a row for customer with no invoice change in
\* between (at most the last two are kept); results: what they wrote
NoRun == [runs |-> 0, customer |-> "none", results |-> <<>>]

\* the customers and their invoices when no rollup is modelled
RollupIdle ==
    /\ invs = {}
    /\ cust = [c \in Customers |-> NoOrders]
    /\ rlast = NoRun

\* the document store when no document with data is modelled
StoreIdle ==
    /\ sfam = "none"
    /\ docs = {}
    /\ lines = {}
    /\ nid = 1
    /\ pays = {}
    /\ op = NoOp

\* no financial data generated yet
NotGenerated == [called |-> FALSE, start_date |-> 0, end_date |-> 0, invoices_read |-> FALSE,
                 total_revenue |-> 0, total_expenses |-> 0, net_profit |-> 0]

\* EditStockMovementModal without a movement: it renders nothing
DialogClosed == [open |-> FALSE, id |-> 0, reason |-> ""]

\* no request made yet; caller_role is the caller's profile role when the
\* request was made, granted whether row level security let it through
NoAccess == [kind |-> "none", caller |-> "none", caller_role |-> "none", table |-> "none",
             cmd |-> "none", target |-> "none", granted |-> FALSE]

\* the reports, the access rules and the purchase order list when none of
\* them is modelled
ExtraIdle ==
    /\ plist = <<>>
    /\ low = NotCalled
    /\ role = <<>>
    /\ acc = NoAccess
    /\ medit = DialogClosed
    /\ view = <<>>
    /\ pos = {} /\ fdata = NotGenerated

(***************************************************************************)
(* The generator applied to a persisted set of numbers                     *)
(***************************************************************************)
\* Suffixes found in a family's table: conforming numbers of the family's
\* width (among them the last one that leaves room for a successor and the
\* last one of the width), an unpadded one, and non-conforming legacy
\* values (letters, no digits at all).
SuffixPool(f) ==
    IF f = "PO"
    THEN { <<"0","0","0","0","0","1">>, <<"0","0","0","0","0","3">>,
           <<"9","9","9","9","9","8">>, <<"9","9","9","9","9","9">>,
           <<"7">>, <<"B","A","D">>, <<>> }
    ELSE { <<"0","0","1">>, <<"0","0","3">>, <<"9","9","8">>, <<"9","9","9">>,
           <<"7">>, <<"B","A","D">>, <<>> }

\* a number of another shape: the family's number with a trailing letter
NumberPool(f) ==
    {PrefixOf(f) \o x : x \in SuffixPool(f)}
        \cup {PrefixOf(f) \o <<"0","0","2","x">>}

GenInit ==
    /\ ExtraIdle
    /\ gfam \in Families
    /\ gstore \in {S \in SUBSET NumberPool(gfam) : Cardinality(S) <= MaxStore}
    /\ gout = NotCalled
    /\ DocIdle
    /\ StockIdle
    /\ FormIdle
    /\ StoreIdle
    /\ RollupIdle

\* supabase.rpc('generate_<family>_number') on the table content gstore
CallGenerator ==
    /\ gout = NotCalled
    /\ gout' = GenerateNumber(gfam, gstore)
    /\ UNCHANGED <<gfam, gstore>>
    /\ UNCHANGED <<dvars, svars, fvars, tvars, cvars, xvars>>

GenNext == CallGenerator

SpecGen == GenInit /\ [][GenNext]_vars

(***************************************************************************)
(* Claims about the generator                                              *)
(***************************************************************************)
\* value of a digit string, position by position
RECURSIVE Pow10(_)
Pow10(k) == IF k = 0 THEN 1 ELSE 10 * Pow10(k - 1)

RECURSIVE DecimalValue(_)
DecimalValue(d) ==
    IF d = <<>> THEN 0
    ELSE DigitVal(Head(d)) * Pow10(Len(d) - 1) + DecimalValue(Tail(d))

\* x has the form PREFIX-digits for family f
Conforms(f, x) ==
    /\ Len(x) > Len(PrefixOf(f))
    /\ SubSeq(x, 1, Len(PrefixOf(f))) = PrefixOf(f)
    /\ \A i \in (Len(PrefixOf(f)) + 1)..Len(x) : x[i] \in {DigitChars[k] : k \in 1..10}

SuffixValue(f, x) == DecimalValue(SubSeq(x, Len(PrefixOf(f)) + 1, Len(x)))

\* the largest numeric suffix among the conforming numbers of S, 0 if none
MaxSuffix(f, S) ==
    LET vs == {SuffixValue(f, x) : x \in {y \in S : Conforms(f, y)}}
    IN  IF vs = {} THEN 0 ELSE CHOOSE m \in vs : \A v \in vs : v <= m

\* x is PREFIX- followed by n written with exactly w digits
IsPadded(f, x, n) ==
    /\ Conforms(f, x)
    /\ Len(x) = Len(PrefixOf(f)) + WidthOf(f)
    /\ SuffixValue(f, x) = n

FitsWidth(f, S) == MaxSuffix(f, S) + 1 < Pow10(WidthOf(f))

\* C1: for every family and every persisted set whose next value fits in
\* the family's width, the generator returns PREFIX- followed by
\* 1 + the largest conforming suffix, zero-padded to the width.
C1_GeneratorReturnsMaxPlusOne ==
    (gout # NotCalled /\ FitsWidth(gfam, gstore))
        => /\ gout.ok
           /\ IsPadded(gfam, gout.val, MaxSuffix(gfam, gstore) + 1)

\* The same statement for the purchase-order function alone.
C1_PurchaseOrderFamilyOnly ==
    (gout # NotCalled /\ FitsWidth(gfam, gstore) /\ gfam = "PO")
        => /\ gout.ok
           /\ IsPadded(gfam, gout.val, MaxSuffix(gfam, gstore) + 1)

(***************************************************************************)
(* Document numbering: create and delete through the hooks                 *)
(***************************************************************************)
\* Tables found at the start of a run, as lists of numbers.
SeedLists(f) ==
    CASE f = "PO"  -> { <<>>,
                        <<PO \o <<"0","0","0","0","0","1">>, PO \o <<"B","A","D">>>>,
                        <<PO \o <<"9","9","9","9","9","8">>>> }
      [] f = "ORD" -> { <<ORD \o <<"0","0","1">>>> }
      [] f = "PAY" -> { <<>> }

MaxSeed == SetMax({Len(l) : l \in UNION {SeedLists(f) : f \in DocFamilies}})

SeedRows(l) == {[id |-> i, number |-> l[i]] : i \in 1..Len(l)}

SeqInit ==
    /\ ExtraIdle
    /\ gfam = "PO" /\ gstore = {} /\ gout = NotCalled
    /\ \E seed \in [DocFamilies -> UNION {SeedLists(f) : f \in DocFamilies}] :
          /\ \A f \in DocFamilies : seed[f] \in SeedLists(f)
          /\ hdr = [f \in DocFamilies |-> SeedRows(seed[f])]
          /\ assigned = [f \in DocFamilies |-> {seed[f][i] : i \in 1..Len(seed[f])}]
    /\ itm = [f \in DocFamilies |-> {}]
    /\ uuid = MaxSeed + 1
    /\ pc = [c \in Clients |-> "idle"]
    /\ req = [c \in Clients |-> NoRequest]
    /\ issued = [f \in DocFamilies |-> <<>>]
    /\ sequential = TRUE
    /\ started = 0
    /\ StockIdle
    /\ FormIdle
    /\ StoreIdle
    /\ RollupIdle

NumbersOf(f) == {h.number : h \in hdr[f]}

\* the tables without their UNIQUE constraint
UniqueViolation_NoConstraint(f, number) == FALSE

\* order_number / po_number / payment_number TEXT UNIQUE NOT NULL:
\* the insert of a second row with the same number is rejected (23505).
UniqueViolation(f, number) == \E h \in hdr[f] : h.number = number

\* marks the operations that read the generator before the table changed
MarkStale(f, c) ==
    [d \in Clients |->
        IF d # c /\ pc[d] = "insert" /\ req[d].fam = f
        THEN [req[d] EXCEPT !.stale = TRUE] ELSE req[d]]

\* createSalesOrder / createPurchaseOrder / createPayment up to the first
\* await: the rpc call of the generator.  An rpc error is thrown.
CreateBegin(c, f, n) ==
    /\ pc[c] = "idle"
    /\ started < MaxDocs
    /\ started' = started + 1
    /\ sequential' = (sequential /\ \A d \in Clients \ {c} : pc[d] = "idle")
    /\ LET r == GenerateNumber(f, NumbersOf(f))
       IN  IF r.ok
           THEN /\ pc' = [pc EXCEPT ![c] = "insert"]
                /\ req' = [req EXCEPT ![c] =
                              [NoRequest EXCEPT !.fam = f, !.nitems = n,
                                                !.number = r.val, !.calls = 1]]
           ELSE /\ pc' = [pc EXCEPT ![c] = "failed"]
                /\ req' = [req EXCEPT ![c] =
                              [NoRequest EXCEPT !.fam = f, !.nitems = n,
                                                !.error = r.err, !.calls = 1]]
    /\ UNCHANGED <<hdr, itm, uuid, issued, assigned>>

\* the insert of the header row with the generated number; the row of
\* createPurchaseOrder is orderData with po_number and created_by added, so
\* with line items in orderData it names a column `items` that
\* purchase_orders does not have and the insert is rejected
InsertHeader(c) ==
    /\ pc[c] = "insert"
    /\ LET f == req[c].fam
           stamped == MarkStale(f, c)
       IN  IF f = "PO" /\ req[c].nitems > 0
           THEN /\ pc' = [pc EXCEPT ![c] = "failed"]
                /\ req' = [req EXCEPT ![c].error = "PGRST204", ![c].calls = @ + 1]
                /\ UNCHANGED <<hdr, uuid, issued, assigned>>
           ELSE IF UniqueViolation(f, req[c].number)
           THEN /\ pc' = [pc EXCEPT ![c] = "failed"]
                /\ req' = [req EXCEPT ![c].error = "23505", ![c].calls = @ + 1]
                /\ UNCHANGED <<hdr, uuid, issued, assigned>>
           ELSE /\ hdr' = [hdr EXCEPT ![f] = @ \cup {[id |-> uuid, number |-> req[c].number]}]
                /\ uuid' = uuid + 1
                /\ issued' = [issued EXCEPT ![f] = Append(@, req[c].number)]
                /\ assigned' = [assigned EXCEPT ![f] = @ \cup {req[c].number}]
                /\ pc' = [pc EXCEPT ![c] = "done"]
                /\ req' = [stamped EXCEPT ![c].id = uuid, ![c].calls = @ + 1,
                                          ![c].wrote = @ + 1]
    /\ UNCHANGED <<itm, sequential, started>>

\* the operation returns the new row or rethrows the error
CreateReturn(c) ==
    /\ pc[c] \in {"done", "failed"}
    /\ pc' = [pc EXCEPT ![c] = "idle"]
    /\ req' = [req EXCEPT ![c] = NoRequest]
    /\ UNCHANGED <<hdr, itm, uuid, issued, assigned, sequential, started>>

\* deleteSalesOrder (items, then header), deletePurchaseOrder (header, the
\* items go by ON DELETE CASCADE), deletePayment (header)
DeleteDocument(f, id) ==
    /\ \E h \in hdr[f] : h.id = id
    /\ hdr' = [hdr EXCEPT ![f] = {h \in @ : h.id # id}]
    /\ itm' = [itm EXCEPT ![f] = {i \in @ : i.doc # id}]
    /\ req' = MarkStale(f, 0)
    /\ sequential' = FALSE
    /\ UNCHANGED <<uuid, pc, issued, assigned, started>>

SeqNext ==
    \/ \E c \in Clients, f \in DocFamilies, n \in 0..MaxItems :
          /\ (f = "PAY" => n = 0)
          /\ CreateBegin(c, f, n)
          /\ UNCHANGED <<gvars, svars, fvars, tvars, cvars, xvars>>
    \/ \E c \in Clients : InsertHeader(c) /\ UNCHANGED <<gvars, svars, fvars, tvars, cvars, xvars>>
    \/ \E c \in Clients : CreateReturn(c) /\ UNCHANGED <<gvars, svars, fvars, tvars, cvars, xvars>>
    \/ \E f \in DocFamilies, id \in 1..(MaxSeed + MaxDocs) :
          DeleteDocument(f, id) /\ UNCHANGED <<gvars, svars, fvars, tvars, cvars, xvars>>

SpecSeq == SeqInit /\ [][SeqNext]_vars

(***************************************************************************)
(* Claims about document numbering                                         *)
(***************************************************************************)
StrictlyIncreasing(f, l) ==
    \A i \in 1..Len(l), j \in 1..Len(l) :
        i < j => SuffixValue(f, l[i]) < SuffixValue(f, l[j])

\* C2: creates run one after another, with no deletion in between, persist
\* numbers whose numeric suffixes are strictly increasing in creation
\* order (hence distinct), for every family and every starting table.
C2_SequentialCreatesIncrease ==
    sequential => \A f \in DocFamilies : StrictlyIncreasing(f, issued[f])

\* C3: a number that was once carried by a persisted document is never
\* returned by the generator for a later document.
C3_NeverReissued ==
    [][\A c \in Clients :
          (pc[c] = "idle" /\ pc'[c] = "insert")
              => req'[c].number \notin assigned[req'[c].fam]]_vars

MovementTypes == {"purchase", "sale", "adjustment", "return", "transfer"}

\* createStockAdjustment with the difference taken the wrong way round
createStockAdjustment_Reversed(productId, currentStock, newStock) ==
    [product |-> productId,
     movement_type |-> "adjustment",
     quantity_change |-> currentStock - newStock,
     stock_before |-> currentStock,
     stock_after |-> newStock]

\* createStockAdjustment: the movementData it hands to createStockMovement
createStockAdjustment(productId, currentStock, newStock) ==
    [product |-> productId,
     movement_type |-> "adjustment",
     quantity_change |-> newStock - currentStock,
     stock_before |-> currentStock,
     stock_after |-> newStock]

RowOf(id, data) ==
    [id |-> id, product |-> data.product, movement_type |-> data.movement_type,
     quantity_change |-> data.quantity_change, stock_before |-> data.stock_before,
     stock_after |-> data.stock_after]

\* createStockMovement up to its first storage call, the insert into
\* stock_movements; ok: the call succeeds, otherwise its error is thrown.
\* via, currentStock, newStock: the caller and, for createStockAdjustment,
\* its arguments.
InsertMovement(c, data, via, currentStock, newStock, ok) ==
    /\ spc[c] = "idle"
    /\ mid <= MaxMoves
    /\ IF ok
       THEN /\ mov' = Append(mov, RowOf(mid, data))
            /\ mid' = mid + 1
            /\ spc' = [spc EXCEPT ![c] = "update"]
            /\ sreq' = [sreq EXCEPT ![c] =
                           [data |-> data, rowid |-> mid, via |-> via,
                            currentStock |-> currentStock, newStock |-> newStock,
                            error |-> "none"]]
       ELSE /\ spc' = [spc EXCEPT ![c] = "failed"]
            /\ sreq' = [sreq EXCEPT ![c] =
                           [NoStockRequest EXCEPT !.via = via, !.error = "storage"]]
            /\ UNCHANGED <<mov, mid>>
    /\ UNCHANGED stock

\* createStockMovement called with a payload of the caller's choosing
CreateStockMovementCall(c, data, ok) ==
    /\ InsertMovement(c, data, "movement", 0, 0, ok)
    /\ UNCHANGED <<sel, new_stock>>

\* createStockAdjustment called by any caller of the hook
CreateStockAdjustmentCall(c, p, currentStock, newStock, ok) ==
    /\ InsertMovement(c, createStockAdjustment(p, currentStock, newStock), "adjustment",
                      currentStock, newStock, ok)
    /\ UNCHANGED <<sel, new_stock>>

\* StockAdjustmentModal.handleProductChange: the product is looked up in the
\* product list and kept in selectedProduct; new_stock starts at its stock
handleProductChange(c, p) ==
    /\ spc[c] = "idle"
    /\ sel[c] # [set |-> TRUE, id |-> p, stock |-> stock[p]]
    /\ sel' = [sel EXCEPT ![c] = [set |-> TRUE, id |-> p, stock |-> stock[p]]]
    /\ new_stock' = [new_stock EXCEPT ![c] = stock[p]]
    /\ UNCHANGED <<stock, mov, mid, spc, sreq>>

\* the new_stock input: onChange(parseInt(value) || 0)
ChangeNewStock(c, v) ==
    /\ spc[c] = "idle"
    /\ new_stock[c] # v
    /\ new_stock' = [new_stock EXCEPT ![c] = v]
    /\ UNCHANGED <<stock, mov, mid, spc, sreq, sel>>

\* stockAdjustmentSchema: product_id is required (it is set by selecting a
\* product), new_stock is at least 0
stockAdjustmentSchema(c) == sel[c].set /\ new_stock[c] >= 0

\* the dialog's submit: a form that fails validation shows the message and
\* never reaches onSubmit
SubmitRejected(c) ==
    /\ spc[c] = "idle"
    /\ ~stockAdjustmentSchema(c)
    /\ spc' = [spc EXCEPT ![c] = "invalid"]
    /\ UNCHANGED <<stock, mov, mid, sreq, sel, new_stock>>

\* StockAdjustmentModal.onSubmit: createStockAdjustment with the stock of
\* selectedProduct as currentStock
onSubmit(c, ok) ==
    /\ stockAdjustmentSchema(c)
    /\ InsertMovement(c, createStockAdjustment(sel[c].id, sel[c].stock, new_stock[c]), "form",
                      sel[c].stock, new_stock[c], ok)
    /\ UNCHANGED <<sel, new_stock>>

\* what the caller holds once createStockMovement has returned or thrown:
\* the id of the row it inserted and the error
Outcome(r, error) ==
    [NoStockRequest EXCEPT !.rowid = r.rowid, !.via = r.via, !.error = error]

\* the second storage call applying the movement's change to the stock the
\* product has at that moment
UpdateProductStock_Relative(c, ok) ==
    /\ spc[c] = "update"
    /\ IF ok
       THEN /\ stock' = [stock EXCEPT ![sreq[c].data.product] =
                             stock[sreq[c].data.product] + sreq[c].data.quantity_change]
            /\ spc' = [spc EXCEPT ![c] = "done"]
            /\ sreq' = [sreq EXCEPT ![c] = Outcome(sreq[c], "none")]
       ELSE /\ spc' = [spc EXCEPT ![c] = "failed"]
            /\ sreq' = [sreq EXCEPT ![c] = Outcome(sreq[c], "storage")]
            /\ UNCHANGED stock
    /\ UNCHANGED <<mov, mid, sel, new_stock>>

\* createStockMovement, second storage call: products.stock := stock_after
UpdateProductStock(c, ok) ==
    /\ spc[c] = "update"
    /\ IF ok
       THEN /\ stock' = [stock EXCEPT ![sreq[c].data.product] = sreq[c].data.stock_after]
            /\ spc' = [spc EXCEPT ![c] = "done"]
            /\ sreq' = [sreq EXCEPT ![c] = Outcome(sreq[c], "none")]
       ELSE /\ spc' = [spc EXCEPT ![c] = "failed"]
            /\ sreq' = [sreq EXCEPT ![c] = Outcome(sreq[c], "storage")]
            /\ UNCHANGED stock
    /\ UNCHANGED <<mov, mid, sel, new_stock>>

\* createStockMovement returns the row or rethrows; the dialog resets the
\* form and selectedProduct after a successful adjustment
StockReturn(c) ==
    /\ spc[c] \in {"done", "failed", "invalid"}
    /\ spc' = [spc EXCEPT ![c] = "idle"]
    /\ sreq' = [sreq EXCEPT ![c] = NoStockRequest]
    /\ IF sreq[c].via = "form" /\ spc[c] = "done"
       THEN /\ sel' = [sel EXCEPT ![c] = NoSelection]
            /\ new_stock' = [new_stock EXCEPT ![c] = 0]
       ELSE UNCHANGED <<sel, new_stock>>
    /\ UNCHANGED <<stock, mov, mid>>

\* deleteStockMovement
deleteStockMovement(id) ==
    /\ \E i \in 1..Len(mov) : mov[i].id = id
    /\ mov' = SelectSeq(mov, LAMBDA r : r.id # id)
    /\ UNCHANGED <<stock, mid, spc, sreq, sel, new_stock>>

\* useProducts.updateProduct(id, { stock: v })
updateProduct(p, v) ==
    /\ stock[p] # v
    /\ stock' = [stock EXCEPT ![p] = v]
    /\ UNCHANGED <<mov, mid, spc, sreq, sel, new_stock>>

\* payloads passed to createStockMovement by callers other than
\* createStockAdjustment: a purchase of one unit, a sale of one unit
MovementPayloads ==
    {[product |-> p, movement_type |-> "purchase", quantity_change |-> 1,
      stock_before |-> 0, stock_after |-> 1] : p \in Products}
    \cup
    {[product |-> p, movement_type |-> "sale", quantity_change |-> 0 - 1,
      stock_before |-> 1, stock_after |-> 0] : p \in Products}

StockInit ==
    /\ ExtraIdle
    /\ gfam = "PO" /\ gstore = {} /\ gout = NotCalled
    /\ DocIdle
    /\ FormIdle
    /\ stock \in [Products -> 0..1]
    /\ mov = <<>>
    /\ mid = 1
    /\ spc = [c \in Clients |-> "idle"]
    /\ sreq = [c \in Clients |-> NoStockRequest]
    /\ sel = [c \in Clients |-> NoSelection]
    /\ new_stock = [c \in Clients |-> 0]
    /\ StoreIdle
    /\ RollupIdle

\* the operations of the stock adjustment dialog and deleteStockMovement,
\* every storage call succeeding
AdjustNext ==
    \/ \E c \in Clients, p \in Products :
          handleProductChange(c, p) /\ UNCHANGED <<gvars, dvars, fvars, tvars, cvars, xvars>>
    \/ \E c \in Clients, v \in StockValues :
          ChangeNewStock(c, v) /\ UNCHANGED <<gvars, dvars, fvars, tvars, cvars, xvars>>
    \/ \E c \in Clients : SubmitRejected(c) /\ UNCHANGED <<gvars, dvars, fvars, tvars, cvars, xvars>>
    \/ \E c \in Clients : onSubmit(c, TRUE) /\ UNCHANGED <<gvars, dvars, fvars, tvars, cvars, xvars>>
    \/ \E c \in Clients : UpdateProductStock(c, TRUE) /\ UNCHANGED <<gvars, dvars, fvars, tvars, cvars, xvars>>
    \/ \E c \in Clients : StockReturn(c) /\ UNCHANGED <<gvars, dvars, fvars, tvars, cvars, xvars>>
    \/ \E id \in 1..MaxMoves : deleteStockMovement(id) /\ UNCHANGED <<gvars, dvars, fvars, tvars, cvars, xvars>>

\* the operations useStockMovements and useProducts offer on the ledger and
\* on products.stock, each storage call succeeding or failing
StockNext ==
    \/ \E c \in Clients, d \in MovementPayloads, ok \in BOOLEAN :
          CreateStockMovementCall(c, d, ok) /\ UNCHANGED <<gvars, dvars, fvars, tvars, cvars, xvars>>
    \/ \E c \in Clients, p \in Products, cur \in 0..MaxStock, new \in StockValues,
          ok \in BOOLEAN :
          CreateStockAdjustmentCall(c, p, cur, new, ok) /\ UNCHANGED <<gvars, dvars, fvars, tvars, cvars, xvars>>
    \/ \E c \in Clients, ok \in BOOLEAN :
          UpdateProductStock(c, ok) /\ UNCHANGED <<gvars, dvars, fvars, tvars, cvars, xvars>>
    \/ \E c \in Clients : StockReturn(c) /\ UNCHANGED <<gvars, dvars, fvars, tvars, cvars, xvars>>
    \/ \E id \in 1..MaxMoves : deleteStockMovement(id) /\ UNCHANGED <<gvars, dvars, fvars, tvars, cvars, xvars>>
    \/ \E p \in Products, v \in 0..MaxStock :
          updateProduct(p, v) /\ UNCHANGED <<gvars, dvars, fvars, tvars, cvars, xvars>>

SpecAdjust == StockInit /\ [][AdjustNext]_vars

SpecStock == StockInit /\ [][StockNext]_vars

(***************************************************************************)
(* Claims about the stock ledger                                           *)
(***************************************************************************)
IsAdjustmentCall(c) == sreq[c].via \in {"adjustment", "form"}

\* C5: every movement recorded by createStockAdjustment(product,
\* currentStock, newStock) has movement_type 'adjustment', stock_before =
\* currentStock, stock_after = newStock and quantity_change = stock_after -
\* stock_before; and at the step at which the operation completes
\* successfully the product's stock equals that movement's stock_after.
C5_AdjustmentRecordsAndApplies ==
    /\ [](\A c \in Clients :
            spc[c] = "update" /\ IsAdjustmentCall(c) =>
                \A i \in 1..Len(mov) :
                    mov[i].id = sreq[c].rowid =>
                        /\ mov[i].movement_type = "adjustment"
                        /\ mov[i].stock_before = sreq[c].currentStock
                        /\ mov[i].stock_after = sreq[c].newStock
                        /\ mov[i].quantity_change = mov[i].stock_after - mov[i].stock_before)
    /\ [][\A c \in Clients :
            spc[c] = "update" /\ IsAdjustmentCall(c) /\ spc'[c] = "done" =>
                /\ stock'[sreq[c].data.product] = sreq[c].newStock
                /\ \A i \in 1..Len(mov') :
                      mov'[i].id = sreq[c].rowid =>
                          stock'[mov'[i].product] = mov'[i].stock_after]_vars

\* an adjustment that lowered the stock has completed: its row carries a
\* negative quantity_change and the product's stock is the row's stock_after
C5_Witness ==
    \E c \in Clients :
        /\ spc[c] = "done"
        /\ sreq[c].via = "adjustment"
        /\ \E i \in 1..Len(mov) :
              /\ mov[i].id = sreq[c].rowid
              /\ mov[i].movement_type = "adjustment"
              /\ mov[i].stock_before = 1
              /\ mov[i].stock_after = 0
              /\ mov[i].quantity_change = 0 - 1
              /\ stock[mov[i].product] = 0

\* C6: createStockMovement is all-or-nothing: once it has failed, the
\* movement row it inserted is not visible.
C6_AllOrNothing ==
    \A c \in Clients :
        spc[c] = "failed" =>
            \A i \in 1..Len(mov) : mov[i].id # sreq[c].rowid

\* C7: the ledger is the only way a product's stock changes and it is
\* append-only: every step that changes products.stock is the stock update
\* of a createStockMovement that inserted a movement for that product, and
\* no step removes a persisted movement row.
C7_LedgerIsOnlyPathAndAppendOnly ==
    [][/\ \A p \in Products :
             stock'[p] # stock[p] =>
                 \E c \in Clients :
                     /\ spc[c] = "update"
                     /\ spc'[c] = "done"
                     /\ sreq[c].data.product = p
        /\ \A i \in 1..Len(mov) :
             \E j \in 1..Len(mov') : mov'[j] = mov[i]]_vars

MovementsOf(p) == SelectSeq(mov, LAMBDA r : r.product = p)

\* C8: ledger chain: once every adjustment submitted from the dialog has
\* returned, for every two consecutive movements of a product the later
\* one's stock_before equals the earlier one's stock_after, and the
\* product's stock equals the stock_after of its most recent movement.
C8_LedgerChain ==
    (\A c \in Clients : spc[c] = "idle") =>
        \A p \in Products :
            /\ \A i \in 1..(Len(MovementsOf(p)) - 1) :
                  MovementsOf(p)[i + 1].stock_before = MovementsOf(p)[i].stock_after
            /\ Len(MovementsOf(p)) > 0 =>
                  stock[p] = MovementsOf(p)[Len(MovementsOf(p))].stock_after

\* C9: no movement with a negative resulting stock is recorded and every
\* product's stock is at least 0.
C9_StockNeverNegative ==
    /\ \A i \in 1..Len(mov) : mov[i].stock_after >= 0
    /\ \A p \in Products : stock[p] >= 0

(***************************************************************************)
(* Order dialogs: CreateEditSalesOrderModal, CreateEditPurchaseOrderModal  *)
(***************************************************************************)
\* Money is counted in units of 1/10000: an amount of whole cents times a
\* whole tax rate divided by 100 is then a whole number, as it is an exact
\* decimal in the program.
Amount(cents) == cents * 100

FormKinds == {"sales", "purchase"}

\* the product list the dialogs look products up in: price, and cost (which
\* may be NULL)
Catalog == {"p1", "p2"}

ProductPrice(p) == IF p = "p1" THEN Amount(1000) ELSE Amount(500)

ProductCost(p) == IF p = "p1" THEN Amount(500) ELSE 0

\* values typed into the quantity, unit price / unit cost and tax rate inputs
Quantities == {0, 1, 2}

UnitAmounts == {0, Amount(500), Amount(1000)}

TaxRates == {0, 8, 101}

\* one entry of the items field array; unit is unit_price (sales order) or
\* unit_cost (purchase order), total is total_price or total_cost
DefaultItem == [product_id |-> "", quantity |-> 1, unit |-> 0, total |-> 0]

\* orders the dialogs are opened on for editing; tax_rate is the rate the
\* stored tax_amount was computed with (sales_orders has no tax_rate column;
\* the sales dialog does not read one)
StoredOrders ==
    { [tax_rate |-> 8,
       items |-> <<[product_id |-> "p1", quantity |-> 2, unit |-> Amount(1000),
                    total |-> Amount(2000)]>>] }

\* the order the dialog wrote last, as the list it is reopened from shows it
WrittenOrders(k) ==
    IF sent.state = "sent" /\ sent.kind = k
    THEN {[tax_rate |-> sent.tax_rate, items |-> sent.items]}
    ELSE {}

\* calculateItemTotal leaving the total as it was
calculateItemTotal_NotRecomputed(items, index) == items

\* calculateItemTotal(index): total := quantity * unit
calculateItemTotal(items, index) ==
    [items EXCEPT ![index].total = items[index].quantity * items[index].unit]

\* items.reduce((sum, item) => sum + item.total, 0)
RECURSIVE ReduceTotals(_, _)
ReduceTotals(items, sum) ==
    IF items = <<>> THEN sum
    ELSE ReduceTotals(Tail(items), sum + Head(items).total)

\* calculateTotals with the tax left out of the total
calculateTotals_TaxLeftOut(items, taxRate) ==
    [subtotal |-> ReduceTotals(items, 0),
     taxAmount |-> (ReduceTotals(items, 0) * taxRate) \div 100,
     total |-> ReduceTotals(items, 0)]

\* calculateTotals, on the form's present items and tax_rate
calculateTotals(items, taxRate) ==
    [subtotal |-> ReduceTotals(items, 0),
     taxAmount |-> (ReduceTotals(items, 0) * taxRate) \div 100,
     total |-> ReduceTotals(items, 0) + (ReduceTotals(items, 0) * taxRate) \div 100]

\* salesOrderItemSchema / purchaseOrderItemSchema
orderItemSchema(item) ==
    /\ item.product_id # ""
    /\ item.quantity >= 1
    /\ item.unit >= 0

\* salesOrderSchema / purchaseOrderSchema: tax_rate in 0..100, at least one
\* item, every item valid (the customer or vendor is taken as chosen)
orderSchema(items, taxRate) ==
    /\ taxRate >= 0 /\ taxRate <= 100
    /\ Len(items) >= 1
    /\ \A i \in 1..Len(items) : orderItemSchema(items[i])

\* the dialog opens without an order: form.reset to the defaults
OpenCreate(k) ==
    /\ fkind = "closed"
    /\ fkind' = k
    /\ fedit' = FALSE
    /\ fitems' = <<DefaultItem>>
    /\ ftax' = 0
    /\ forig' = NoOriginal
    /\ sent' = NotSent

\* the dialog opens on a stored order: form.reset to the order's values;
\* the sales dialog sets tax_rate to 0, the purchase dialog to the order's
OpenEdit(k, o) ==
    /\ fkind = "closed"
    /\ fkind' = k
    /\ fedit' = TRUE
    /\ fitems' = o.items
    /\ ftax' = IF k = "sales" THEN 0 ELSE o.tax_rate
    /\ forig' = [set |-> TRUE,
                 subtotal |-> calculateTotals(o.items, o.tax_rate).subtotal,
                 tax_amount |-> calculateTotals(o.items, o.tax_rate).taxAmount,
                 total_amount |-> calculateTotals(o.items, o.tax_rate).total,
                 items |-> o.items]
    /\ sent' = NotSent

\* the product select of item i: field.onChange(value), then
\* handleProductChange(index, value): unit := the product's price (sales) or
\* cost (purchase) and calculateItemTotal(index)
SelectItemProduct(i, p) ==
    /\ fkind \in FormKinds
    /\ i \in 1..Len(fitems)
    /\ fitems' = calculateItemTotal(
                     [fitems EXCEPT ![i].product_id = p,
                                    ![i].unit = IF fkind = "sales" THEN ProductPrice(p)
                                                ELSE ProductCost(p)], i)
    /\ forig' = NoOriginal
    /\ UNCHANGED <<fkind, fedit, ftax, sent>>

\* the quantity input of item i: parseInt(value || '0') in the sales
\* dialog, parseInt(value) || 1 in the purchase dialog, then
\* calculateItemTotal(index)
ChangeQuantity(i, q) ==
    /\ fkind \in FormKinds
    /\ i \in 1..Len(fitems)
    /\ fitems' = calculateItemTotal(
                     [fitems EXCEPT ![i].quantity = IF fkind = "purchase" /\ q = 0
                                                    THEN 1 ELSE q], i)
    /\ forig' = NoOriginal
    /\ UNCHANGED <<fkind, fedit, ftax, sent>>

\* the unit price / unit cost input of item i, then calculateItemTotal(index)
ChangeUnit(i, u) ==
    /\ fkind \in FormKinds
    /\ i \in 1..Len(fitems)
    /\ fitems' = calculateItemTotal([fitems EXCEPT ![i].unit = u], i)
    /\ forig' = NoOriginal
    /\ UNCHANGED <<fkind, fedit, ftax, sent>>

\* the tax rate input: parseFloat(value) || 0
ChangeTaxRate(r) ==
    /\ fkind \in FormKinds
    /\ ftax' = r
    /\ forig' = NoOriginal
    /\ UNCHANGED <<fkind, fedit, fitems, sent>>

\* Add Item: append the default item
AppendItem ==
    /\ fkind \in FormKinds
    /\ Len(fitems) < MaxLines
    /\ fitems' = Append(fitems, DefaultItem)
    /\ forig' = NoOriginal
    /\ UNCHANGED <<fkind, fedit, ftax, sent>>

\* the remove button of item i; the purchase dialog shows it only while
\* there is more than one item
RemoveItem(i) ==
    /\ fkind \in FormKinds
    /\ i \in 1..Len(fitems)
    /\ fkind = "purchase" => Len(fitems) > 1
    /\ fitems' = [j \in 1..(Len(fitems) - 1) |-> IF j < i THEN fitems[j] ELSE fitems[j + 1]]
    /\ forig' = NoOriginal
    /\ UNCHANGED <<fkind, fedit, ftax, sent>>

\* submit of a form the schema rejects: onSubmit is not called
SubmitInvalid ==
    /\ fkind \in FormKinds
    /\ ~orderSchema(fitems, ftax)
    /\ sent' = [NotSent EXCEPT !.state = "invalid"]
    /\ UNCHANGED <<fkind, fedit, fitems, ftax, forig>>

\* onSubmit(data): the header from calculateTotals(), the items from data,
\* handed to the hook; then form.reset() and the dialog closes
SubmitOrder ==
    /\ fkind \in FormKinds
    /\ orderSchema(fitems, ftax)
    /\ sent' = [state |-> "sent", kind |-> fkind, edit |-> fedit, tax_rate |-> ftax,
                subtotal |-> calculateTotals(fitems, ftax).subtotal,
                tax_amount |-> calculateTotals(fitems, ftax).taxAmount,
                total_amount |-> calculateTotals(fitems, ftax).total,
                items |-> fitems, orig |-> forig]
    /\ fkind' = "closed"
    /\ fedit' = FALSE
    /\ fitems' = <<>>
    /\ ftax' = 0
    /\ forig' = NoOriginal

\* the dialog is closed without submitting
CancelDialog ==
    /\ fkind \in FormKinds
    /\ fkind' = "closed"
    /\ fedit' = FALSE
    /\ fitems' = <<>>
    /\ ftax' = 0
    /\ forig' = NoOriginal
    /\ UNCHANGED sent

FormInit ==
    /\ ExtraIdle
    /\ gfam = "PO" /\ gstore = {} /\ gout = NotCalled
    /\ DocIdle
    /\ StockIdle
    /\ FormIdle
    /\ StoreIdle
    /\ RollupIdle

FormNext ==
    \/ \E k \in FormKinds : OpenCreate(k) /\ UNCHANGED <<gvars, dvars, svars, tvars, cvars, xvars>>
    \/ \E k \in FormKinds :
          \E o \in StoredOrders \cup WrittenOrders(k) :
              OpenEdit(k, o) /\ UNCHANGED <<gvars, dvars, svars, tvars, cvars, xvars>>
    \/ \E i \in 1..MaxLines, p \in Catalog :
          SelectItemProduct(i, p) /\ UNCHANGED <<gvars, dvars, svars, tvars, cvars, xvars>>
    \/ \E i \in 1..MaxLines, q \in Quantities :
          ChangeQuantity(i, q) /\ UNCHANGED <<gvars, dvars, svars, tvars, cvars, xvars>>
    \/ \E i \in 1..MaxLines, u \in UnitAmounts :
          ChangeUnit(i, u) /\ UNCHANGED <<gvars, dvars, svars, tvars, cvars, xvars>>
    \/ \E r \in TaxRates : ChangeTaxRate(r) /\ UNCHANGED <<gvars, dvars, svars, tvars, cvars, xvars>>
    \/ AppendItem /\ UNCHANGED <<gvars, dvars, svars, tvars, cvars, xvars>>
    \/ \E i \in 1..MaxLines : RemoveItem(i) /\ UNCHANGED <<gvars, dvars, svars, tvars, cvars, xvars>>
    \/ SubmitInvalid /\ UNCHANGED <<gvars, dvars, svars, tvars, cvars, xvars>>
    \/ SubmitOrder /\ UNCHANGED <<gvars, dvars, svars, tvars, cvars, xvars>>
    \/ CancelDialog /\ UNCHANGED <<gvars, dvars, svars, tvars, cvars, xvars>>

SpecForm == FormInit /\ [][FormNext]_vars

(***************************************************************************)
(* Claims about the order dialogs                                          *)
(***************************************************************************)
RECURSIVE LineTotalSum(_, _)
LineTotalSum(items, n) ==
    IF n = 0 THEN 0 ELSE LineTotalSum(items, n - 1) + items[n].total

\* C10: for every sales order and purchase order submitted from its form,
\* the header sent satisfies subtotal = sum of the line totals of the items
\* sent, tax_amount = subtotal * tax_rate / 100 and total_amount = subtotal +
\* tax_amount.
C10_HeaderTotals ==
    sent.state = "sent" =>
        /\ sent.subtotal = LineTotalSum(sent.items, Len(sent.items))
        /\ sent.tax_amount * 100 = sent.subtotal * sent.tax_rate
        /\ sent.total_amount = sent.subtotal + sent.tax_amount

\* the order (2 x 10.00), (1 x 5.00) at tax rate 8 was submitted with
\* subtotal 25.00, tax_amount 2.00, total_amount 27.00
C10_Witness ==
    /\ sent.state = "sent"
    /\ sent.kind = "sales"
    /\ Len(sent.items) = 2
    /\ sent.items[1].quantity = 2 /\ sent.items[1].unit = Amount(1000)
    /\ sent.items[2].quantity = 1 /\ sent.items[2].unit = Amount(500)
    /\ sent.tax_rate = 8
    /\ sent.subtotal = Amount(2500)
    /\ sent.tax_amount = Amount(200)
    /\ sent.total_amount = Amount(2700)

ItemPool ==
    {[product_id |-> "p1", quantity |-> 2, unit |-> Amount(1000), total |-> Amount(2000)],
     [product_id |-> "p2", quantity |-> 1, unit |-> Amount(500), total |-> Amount(500)]}

\* the item lists a caller passes: up to MaxList items, no product twice
ItemLists ==
    {L \in UNION {[1..n -> ItemPool] : n \in 0..MaxList} :
        \A i, j \in 1..Len(L) : L[i] = L[j] => i = j}

\* invoice_status, order_status, purchase_orders.status CHECK
Statuses(f) ==
    CASE f = "INV" -> {"draft", "sent", "paid", "overdue", "cancelled"}
      [] f = "ORD" -> {"draft", "pending", "confirmed", "shipped", "delivered", "cancelled"}
      [] f = "PO" -> {"draft", "sent", "received", "cancelled"}

\* a status no enumeration holds
NoSuchStatus == "archived"

\* the header amounts a caller computes for an item list: subtotal, tax (8%)
\* and total
HeaderTotals(L) == calculateTotals(L, 8)

\* a row of invoices / sales_orders / purchase_orders
HeaderRow(f, id, T, s) ==
    [fam |-> f, id |-> id, subtotal |-> T.subtotal, tax_amount |-> T.taxAmount,
     total_amount |-> T.total, status |-> s]

\* rows of invoice_items / sales_order_items / purchase_order_items for the
\* items of L: each item with the header's id, ids fresh from first on
ItemRows(f, doc, L, first) ==
    {[fam |-> f, doc |-> doc, id |-> first + i - 1, item |-> L[i]] : i \in 1..Len(L)}

LinesOf(f, doc) == {r \in lines : r.fam = f /\ r.doc = doc}

StoreFamilies == {"INV", "ORD", "PO"}

Exists(f, id) == \E h \in docs : h.fam = f /\ h.id = id

\* the store starts with one document of the family, id 1, status draft, with
\* the two items of ItemPool as rows 2 and 3
InitialItems ==
    <<[product_id |-> "p1", quantity |-> 2, unit |-> Amount(1000), total |-> Amount(2000)],
      [product_id |-> "p2", quantity |-> 1, unit |-> Amount(500), total |-> Amount(500)]>>

FirstFresh == 2 + Len(InitialItems)

RowLimit == FirstFresh + MaxRows

StoreInit ==
    /\ ExtraIdle
    /\ gfam = "PO" /\ gstore = {} /\ gout = NotCalled
    /\ DocIdle
    /\ StockIdle
    /\ FormIdle
    /\ sfam \in StoreFamilies
    /\ docs = {HeaderRow(sfam, 1, HeaderTotals(InitialItems), "draft")}
    /\ lines = ItemRows(sfam, 1, InitialItems, 2)
    /\ nid = FirstFresh
    /\ pays \in IF sfam = "INV" THEN {{}, {1}} ELSE {{}}
    /\ op = NoOp
    /\ RollupIdle

\* the operation record of a hook called on document id of family f
Begin(name, f, id) ==
    [NoOp EXCEPT !.name = name, !.fam = f, !.id = id,
                 !.before = LinesOf(f, id),
                 !.hdr0 = {h \in docs : h.fam = f /\ h.id = id}]

Thrown(o, e) == [o EXCEPT !.step = "failed", !.error = e]

\* createInvoice, first storage call: insert into invoices of the payload
\* without its items; ok: the call succeeds, otherwise its error is thrown
createInvoice(L, ok) ==
    /\ op.step = "idle"
    /\ sfam = "INV"
    /\ nid + 1 + Len(L) <= RowLimit
    /\ IF ok
       THEN /\ docs' = docs \cup {HeaderRow("INV", nid, HeaderTotals(L), "draft")}
            /\ nid' = nid + 1
            /\ op' = [Begin("createInvoice", "INV", nid) EXCEPT
                         !.step = "items", !.hasItems = TRUE, !.items = L,
                         !.totals = HeaderTotals(L), !.status = "draft"]
       ELSE /\ op' = Thrown([Begin("createInvoice", "INV", 0) EXCEPT
                                !.hasItems = TRUE, !.items = L,
                                !.totals = HeaderTotals(L)], "storage")
            /\ UNCHANGED <<docs, nid>>
    /\ UNCHANGED <<lines, pays, sfam>>

\* createInvoice / createSalesOrder, second storage call: insert into the item
\* table of the items with the header's id set; its error is thrown, the
\* header stays
InsertCreatedItems(ok) ==
    /\ op.name \in {"createInvoice", "createSalesOrder"} /\ op.step = "items"
    /\ IF ok
       THEN /\ lines' = lines \cup ItemRows(op.fam, op.id, op.items, nid)
            /\ nid' = nid + Len(op.items)
            /\ op' = [op EXCEPT !.step = "done"]
       ELSE /\ op' = Thrown(op, "storage")
            /\ UNCHANGED <<lines, nid>>
    /\ UNCHANGED <<docs, pays, sfam>>

\* createSalesOrder: generateOrderNumber comes first and throws the error of
\* generate_order_number (the order numbers themselves are not part of this
\* store); then the header is inserted, then the items when there are any
createSalesOrder(L, ok) ==
    /\ op.step = "idle"
    /\ sfam = "ORD"
    /\ nid + 1 + Len(L) <= RowLimit
    /\ LET number == generate_order_number({})
           o == [Begin("createSalesOrder", "ORD", nid) EXCEPT
                    !.hasItems = TRUE, !.items = L,
                    !.totals = HeaderTotals(L), !.status = "draft"]
       IN  IF ~number.ok
           THEN /\ op' = Thrown([o EXCEPT !.id = 0], number.err)
                /\ UNCHANGED <<docs, nid>>
           ELSE IF ok
           THEN /\ docs' = docs \cup {HeaderRow("ORD", nid, HeaderTotals(L), "draft")}
                /\ nid' = nid + 1
                /\ op' = [o EXCEPT !.step = IF Len(L) > 0 THEN "items" ELSE "done"]
           ELSE /\ op' = Thrown([o EXCEPT !.id = 0], "storage")
                /\ UNCHANGED <<docs, nid>>
    /\ UNCHANGED <<lines, pays, sfam>>

\* createPurchaseOrder: the row inserted into purchase_orders is
\* { ...orderData, po_number, created_by }; with an items key in orderData the
\* insert names a column purchase_orders does not have and is rejected
createPurchaseOrder(hasItems, L, ok) ==
    /\ op.step = "idle"
    /\ sfam = "PO"
    /\ nid + 1 <= RowLimit
    /\ hasItems \/ L = <<>>
    /\ LET o == [Begin("createPurchaseOrder", "PO", nid) EXCEPT
                    !.hasItems = hasItems, !.items = L,
                    !.totals = HeaderTotals(L), !.status = "draft"]
       IN  IF hasItems
           THEN /\ op' = Thrown([o EXCEPT !.id = 0], "PGRST204")
                /\ UNCHANGED <<docs, nid>>
           ELSE IF ok
           THEN /\ docs' = docs \cup {HeaderRow("PO", nid, HeaderTotals(L), "draft")}
                /\ nid' = nid + 1
                /\ op' = [o EXCEPT !.step = "done"]
           ELSE /\ op' = Thrown([o EXCEPT !.id = 0], "storage")
                /\ UNCHANGED <<docs, nid>>
    /\ UNCHANGED <<lines, pays, sfam>>

\* updateInvoice / updateSalesOrder / updatePurchaseOrder called with an item
\* list, first storage call: update of the header with the payload without
\* its items
UpdateHeader(f, id, L, ok) ==
    /\ op.step = "idle"
    /\ Exists(f, id)
    /\ nid + Len(L) <= RowLimit
    /\ LET o == [Begin("update", f, id) EXCEPT
                    !.hasItems = TRUE, !.items = L, !.totals = HeaderTotals(L)]
       IN  IF ok
           THEN /\ docs' = {IF h.fam = f /\ h.id = id
                            THEN HeaderRow(f, id, HeaderTotals(L), h.status)
                            ELSE h : h \in docs}
                /\ op' = [o EXCEPT !.step = "delete"]
           ELSE /\ op' = Thrown(o, "storage")
                /\ UNCHANGED docs
    /\ UNCHANGED <<lines, nid, pays, sfam>>

\* the delete of the existing items throws when it fails
DeleteErrorChecked(f) == f = "INV"

\* update with an item list, second storage call: delete of the document's
\* item rows; updateInvoice throws its error, updateSalesOrder and
\* updatePurchaseOrder do not look at the result
DeleteExistingItems(ok) ==
    /\ op.name = "update" /\ op.step = "delete"
    /\ IF ok
       THEN lines' = lines \ LinesOf(op.fam, op.id)
       ELSE UNCHANGED lines
    /\ op' = IF ~ok /\ DeleteErrorChecked(op.fam)
             THEN Thrown(op, "storage")
             ELSE [op EXCEPT !.deleteError = ~ok,
                             !.step = IF op.fam = "INV" \/ Len(op.items) > 0
                                      THEN "insert" ELSE "done"]
    /\ UNCHANGED <<docs, nid, pays, sfam>>

\* update with an item list, third storage call: insert of the new items
\* (updateInvoice inserts the list as it is, the two others only a list that
\* is not empty)
InsertNewItems(ok) ==
    /\ op.name = "update" /\ op.step = "insert"
    /\ IF ok
       THEN /\ lines' = lines \cup ItemRows(op.fam, op.id, op.items, nid)
            /\ nid' = nid + Len(op.items)
            /\ op' = [op EXCEPT !.step = "done"]
       ELSE /\ op' = Thrown(op, "storage")
            /\ UNCHANGED <<lines, nid>>
    /\ UNCHANGED <<docs, pays, sfam>>

\* a status update refused once the document is delivered, received or
\* cancelled
StatusAccepted_TerminalLocked(f, current, s) ==
    s \in Statuses(f) /\ current \notin {"delivered", "received", "cancelled"}

\* update({ status }) on a row whose status is current: the value has to be
\* one of the column's enumeration (enum type, CHECK); no trigger, policy or
\* hook code compares it with the current status
StatusAccepted(f, current, s) == s \in Statuses(f)

\* UpdateStatus deleting the item rows as an update with an item list does
UpdateStatus_DeletesItems(f, id, s, ok) ==
    /\ op.step = "idle"
    /\ Exists(f, id)
    /\ op' = [Begin("status", f, id) EXCEPT !.status = s, !.step = "done"]
    /\ lines' = lines \ LinesOf(f, id)
    /\ UNCHANGED <<docs, nid, pays, sfam>>

\* updateOrderStatus / updatePOStatus, and updateInvoice called with
\* { status }: update({ status }) of the header, nothing else; a value outside
\* the column's enumeration is rejected by the column's type or CHECK
UpdateStatus(f, id, s, ok) ==
    /\ op.step = "idle"
    /\ Exists(f, id)
    /\ LET o == [Begin("status", f, id) EXCEPT !.status = s]
       IN  IF \E h \in docs : h.fam = f /\ h.id = id /\ ~StatusAccepted(f, h.status, s)
           THEN /\ op' = Thrown(o, "invalid status")
                /\ UNCHANGED docs
           ELSE IF ok
           THEN /\ docs' = {IF h.fam = f /\ h.id = id THEN [h EXCEPT !.status = s]
                            ELSE h : h \in docs}
                /\ op' = [o EXCEPT !.step = "done"]
           ELSE /\ op' = Thrown(o, "storage")
                /\ UNCHANGED docs
    /\ UNCHANGED <<lines, nid, pays, sfam>>

\* deleteInvoice / deleteSalesOrder, first storage call: delete of the item
\* rows; deleteInvoice throws its error, deleteSalesOrder does not look at it
DeleteItems(f, id, ok) ==
    /\ op.step = "idle"
    /\ f \in {"INV", "ORD"}
    /\ Exists(f, id)
    /\ IF ok
       THEN lines' = lines \ LinesOf(f, id)
       ELSE UNCHANGED lines
    /\ op' = IF ~ok /\ DeleteErrorChecked(f)
             THEN Thrown(Begin("delete", f, id), "storage")
             ELSE [Begin("delete", f, id) EXCEPT !.step = "header", !.deleteError = ~ok]
    /\ UNCHANGED <<docs, nid, pays, sfam>>

\* a delete of a header row: rejected (23503) while a payments row references
\* the invoice; the item rows of the header go with it (ON DELETE CASCADE)
HeaderDeleted(f, id, ok) == ok /\ ~(f = "INV" /\ id \in pays)

\* deleteInvoice / deleteSalesOrder, second storage call: delete of the header
DeleteHeader(ok) ==
    /\ op.name = "delete" /\ op.step = "header"
    /\ IF HeaderDeleted(op.fam, op.id, ok)
       THEN /\ docs' = {h \in docs : ~(h.fam = op.fam /\ h.id = op.id)}
            /\ lines' = lines \ LinesOf(op.fam, op.id)
            /\ op' = [op EXCEPT !.step = "done"]
       ELSE /\ op' = Thrown(op, IF ok THEN "23503" ELSE "storage")
            /\ UNCHANGED <<docs, lines>>
    /\ UNCHANGED <<nid, pays, sfam>>

\* deletePurchaseOrder, and deleteInvoice of the Invoices page: one storage
\* call, the delete of the header
DeleteRow(f, id, ok) ==
    /\ op.step = "idle"
    /\ f \in {"INV", "PO"}
    /\ Exists(f, id)
    /\ IF HeaderDeleted(f, id, ok)
       THEN /\ docs' = {h \in docs : ~(h.fam = f /\ h.id = id)}
            /\ lines' = lines \ LinesOf(f, id)
            /\ op' = [Begin("deleteRow", f, id) EXCEPT !.step = "done"]
       ELSE /\ op' = Thrown(Begin("deleteRow", f, id), IF ok THEN "23503" ELSE "storage")
            /\ UNCHANGED <<docs, lines>>
    /\ UNCHANGED <<nid, pays, sfam>>

\* the hook returns or rethrows
StoreReturn ==
    /\ op.step \in {"done", "failed"}
    /\ op' = NoOp
    /\ UNCHANGED <<docs, lines, nid, pays, sfam>>

StoreNext ==
    \/ \E L \in ItemLists, ok \in BOOLEAN :
          createInvoice(L, ok) /\ UNCHANGED <<gvars, dvars, svars, fvars, cvars, xvars>>
    \/ \E ok \in BOOLEAN :
          InsertCreatedItems(ok) /\ UNCHANGED <<gvars, dvars, svars, fvars, cvars, xvars>>
    \/ \E L \in ItemLists, ok \in BOOLEAN :
          createSalesOrder(L, ok) /\ UNCHANGED <<gvars, dvars, svars, fvars, cvars, xvars>>
    \/ \E hasItems \in BOOLEAN, L \in ItemLists, ok \in BOOLEAN :
          createPurchaseOrder(hasItems, L, ok) /\ UNCHANGED <<gvars, dvars, svars, fvars, cvars, xvars>>
    \/ \E f \in StoreFamilies, id \in 1..RowLimit, L \in ItemLists, ok \in BOOLEAN :
          UpdateHeader(f, id, L, ok) /\ UNCHANGED <<gvars, dvars, svars, fvars, cvars, xvars>>
    \/ \E ok \in BOOLEAN :
          DeleteExistingItems(ok) /\ UNCHANGED <<gvars, dvars, svars, fvars, cvars, xvars>>
    \/ \E ok \in BOOLEAN :
          InsertNewItems(ok) /\ UNCHANGED <<gvars, dvars, svars, fvars, cvars, xvars>>
    \/ \E f \in StoreFamilies, id \in 1..RowLimit, ok \in BOOLEAN :
          DeleteItems(f, id, ok) /\ UNCHANGED <<gvars, dvars, svars, fvars, cvars, xvars>>
    \/ \E ok \in BOOLEAN :
          DeleteHeader(ok) /\ UNCHANGED <<gvars, dvars, svars, fvars, cvars, xvars>>
    \/ \E f \in StoreFamilies, id \in 1..RowLimit, ok \in BOOLEAN :
          DeleteRow(f, id, ok) /\ UNCHANGED <<gvars, dvars, svars, fvars, cvars, xvars>>
    \/ StoreReturn /\ UNCHANGED <<gvars, dvars, svars, fvars, cvars, xvars>>

SpecStore == StoreInit /\ [][StoreNext]_vars

\* the status hooks on the stored documents, and the deletes
StatusNext ==
    \/ \E f \in StoreFamilies, id \in 1..RowLimit, ok \in BOOLEAN :
          \E s \in Statuses(f) \cup {NoSuchStatus} :
              UpdateStatus(f, id, s, ok) /\ UNCHANGED <<gvars, dvars, svars, fvars, cvars, xvars>>
    \/ \E f \in StoreFamilies, id \in 1..RowLimit, ok \in BOOLEAN :
          DeleteRow(f, id, ok) /\ UNCHANGED <<gvars, dvars, svars, fvars, cvars, xvars>>
    \/ StoreReturn /\ UNCHANGED <<gvars, dvars, svars, fvars, cvars, xvars>>

SpecStatus == StoreInit /\ [][StatusNext]_vars

RECURSIVE SumTotals(_)
SumTotals(rows) ==
    IF rows = {} THEN 0
    ELSE LET r == CHOOSE x \in rows : TRUE
         IN  r.item.total + SumTotals(rows \ {r})

Range(L) == {L[i] : i \in 1..Len(L)}

\* fetchInvoiceById, and the select of a sales order or purchase order with
\* its items: the header row with this id and the item rows that carry it
fetchById(f, id) ==
    [header |-> {h \in docs : h.fam = f /\ h.id = id},
     items |-> {r.item : r \in LinesOf(f, id)}]

Creates == {"createInvoice", "createSalesOrder", "createPurchaseOrder"}

\* no hook is between two of its storage calls
Quiescent == op.step \in {"idle", "done", "failed"}

\* C12: whenever no operation is part-way (every create, update and delete so
\* far has returned or failed), each persisted document's stored subtotal
\* equals the sum of the totals of the line items persisted for it.
C12_SubtotalIsSumOfLines ==
    Quiescent =>
        \A h \in docs : h.subtotal = SumTotals(LinesOf(h.fam, h.id))

\* C13: whenever an update called with an item list L returns successfully,
\* the line items persisted for the document are exactly the items of L and
\* none of the previous item rows remains.
C13_UpdateReplacesItems ==
    (op.name = "update" /\ op.step = "done") =>
        /\ LinesOf(op.fam, op.id) \cap op.before = {}
        /\ Cardinality(LinesOf(op.fam, op.id)) = Len(op.items)
        /\ {r.item : r \in LinesOf(op.fam, op.id)} = Range(op.items)

\* the replacement as it goes when the delete of the old items succeeded
C13_ReplacedWhenDeleteSucceeded ==
    (op.name = "update" /\ op.step = "done" /\ ~op.deleteError) =>
        /\ LinesOf(op.fam, op.id) \cap op.before = {}
        /\ {r.item : r \in LinesOf(op.fam, op.id)} = Range(op.items)

C15_NoOrphans ==
    /\ \A r \in lines : Exists(r.fam, r.doc)
    /\ (op.name \in {"delete", "deleteRow"} /\ op.step = "done") =>
           (~Exists(op.fam, op.id) /\ LinesOf(op.fam, op.id) = {})

\* C15: no orphaned line items: in every reachable state each persisted item
\* row references a header that exists; after a delete returned successfully
\* neither the header nor any of its item rows remains; and when deleteInvoice
\* or deleteSalesOrder removes the header, the item rows are already gone.
C15_NoOrphansItemsFirst ==
    /\ []C15_NoOrphans
    /\ [][(op.name = "delete" /\ op.step = "header" /\ op'.step = "done") =>
              LinesOf(op.fam, op.id) = {}]_vars

\* C16: a create either persists the header together with all the supplied
\* items, or reports a failure and persists nothing: no header of a failed
\* create remains.
C16_CreateAllOrNothing ==
    (op.name \in Creates) =>
        /\ op.step = "failed" => ~Exists(op.fam, op.id)
        /\ op.step = "done" =>
               /\ Exists(op.fam, op.id)
               /\ {r.item : r \in LinesOf(op.fam, op.id)} = Range(op.items)

\* createInvoice alone: after it succeeded, the fetch by id returns the header
\* amounts and the items that were passed
C17_InvoiceRoundTrip ==
    (op.name = "createInvoice" /\ op.step = "done") =>
        /\ fetchById("INV", op.id).header =
               {HeaderRow("INV", op.id, op.totals, op.status)}
        /\ fetchById("INV", op.id).items = Range(op.items)
        /\ Cardinality(LinesOf("INV", op.id)) = Len(op.items)

\* C17: after a create with header totals T and a non-empty item list L
\* succeeded, the fetch by id returns a header with the amounts of T and the
\* items of L; and the header row is written from the header fields only (the
\* insert of the header is never rejected for carrying the items).
C17_CreateFetchRoundTrip ==
    (op.name \in Creates) =>
        /\ (op.step = "done" /\ op.items # <<>>) =>
               /\ fetchById(op.fam, op.id).header =
                      {HeaderRow(op.fam, op.id, op.totals, op.status)}
               /\ fetchById(op.fam, op.id).items = Range(op.items)
        /\ op.error # "PGRST204"

(***************************************************************************)
(* Customer rollup: update_customer_totals, fired after every insert,     *)
(* update and delete of an invoices row                                   *)
(***************************************************************************)

RollupStatuses == {"draft", "paid"}

RollupAmounts == {Amount(5000), Amount(12000)}

IssueDates == {1, 2}

RECURSIVE SumAmounts(_)
SumAmounts(rows) ==
    IF rows = {} THEN 0
    ELSE LET r == CHOOSE x \in rows : TRUE
         IN  r.total_amount + SumAmounts(rows \ {r})

\* the three subqueries of update_customer_totals for customer c over the
\* invoices rows: COUNT(*) and COALESCE(SUM(total_amount), 0) over the rows
\* with status paid, MAX(issue_date) over all the customer's rows
Rollup(c, rows) ==
    LET mine == {r \in rows : r.customer_id = c}
        paid == {r \in mine : r.status = "paid"}
    IN  [total_orders |-> Cardinality(paid),
         total_spent |-> SumAmounts(paid),
         last_order_date |-> IF mine = {} THEN 0
                             ELSE SetMax({r.issue_date : r \in mine})]

\* the rollup kept as running counters instead of recomputed
update_customer_totals_Incremental(c, rows, totals) ==
    [totals EXCEPT ![c] = [total_orders |-> totals[c].total_orders + 1,
                           total_spent |-> Rollup(c, rows).total_spent,
                           last_order_date |-> Rollup(c, rows).last_order_date]]

\* update_customer_totals: UPDATE customers SET ... WHERE id = c, with c
\* NEW.customer_id for an insert or update and OLD.customer_id for a delete;
\* rows: the invoices after the statement; totals: the customers rows
update_customer_totals(c, rows, totals) ==
    [totals EXCEPT ![c] = Rollup(c, rows)]

\* the example of the specification: paid invoices of 120.00 and 80.00 and a
\* later-dated draft invoice of 50.00, all of customer A
ExampleInvoices ==
    {[id |-> 1, customer_id |-> "A", status |-> "paid", total_amount |-> Amount(12000),
      issue_date |-> 1],
     [id |-> 2, customer_id |-> "A", status |-> "paid", total_amount |-> Amount(8000),
      issue_date |-> 1],
     [id |-> 3, customer_id |-> "A", status |-> "draft", total_amount |-> Amount(5000),
      issue_date |-> 2]}

\* no invoice yet, the customers rows with their defaults
RollupInit ==
    /\ ExtraIdle
    /\ gfam = "PO" /\ gstore = {} /\ gout = NotCalled
    /\ DocIdle
    /\ StockIdle
    /\ FormIdle
    /\ StoreIdle
    /\ invs = {}
    /\ cust = [c \in Customers |-> NoOrders]
    /\ rlast = NoRun

FreeIds == (1..MaxInvoices) \ {r.id : r \in invs}

\* INSERT INTO invoices, then the trigger for NEW.customer_id
InsertInvoice(c, s, a, d) ==
    /\ FreeIds # {}
    /\ LET row == [id |-> CHOOSE i \in FreeIds : \A j \in FreeIds : i <= j,
                   customer_id |-> c, status |-> s, total_amount |-> a, issue_date |-> d]
       IN  /\ invs' = invs \cup {row}
           /\ cust' = update_customer_totals(c, invs \cup {row}, cust)
    /\ rlast' = NoRun

\* UPDATE invoices SET ... WHERE id = old.id to the row new (same id), then
\* the trigger for NEW.customer_id
UpdateInvoiceRow(old, new) ==
    /\ old \in invs
    /\ new.id = old.id
    /\ new # old
    /\ invs' = (invs \ {old}) \cup {new}
    /\ cust' = update_customer_totals(new.customer_id, (invs \ {old}) \cup {new}, cust)
    /\ rlast' = NoRun

\* an UPDATE of an invoices row that changes none of its values (or only
\* columns the rollup does not read): the trigger fires all the same and
\* recomputes for the row's customer
TouchInvoice(row) ==
    /\ row \in invs
    /\ cust' = update_customer_totals(row.customer_id, invs, cust)
    /\ rlast' = IF rlast.customer = row.customer_id
                THEN [runs |-> IF rlast.runs < 2 THEN rlast.runs + 1 ELSE 2,
                      customer |-> row.customer_id,
                      results |-> IF rlast.runs < 2
                                  THEN Append(rlast.results, cust'[row.customer_id])
                                  ELSE <<rlast.results[2], cust'[row.customer_id]>>]
                ELSE [runs |-> 1, customer |-> row.customer_id,
                      results |-> <<cust'[row.customer_id]>>]
    /\ UNCHANGED invs

\* DELETE FROM invoices WHERE id = row.id, then the trigger for
\* OLD.customer_id over the remaining rows
DeleteInvoiceRow(row) ==
    /\ row \in invs
    /\ invs' = invs \ {row}
    /\ cust' = update_customer_totals(row.customer_id, invs \ {row}, cust)
    /\ rlast' = NoRun

RollupNext ==
    \/ \E c \in Customers, s \in RollupStatuses, a \in RollupAmounts, d \in IssueDates :
          InsertInvoice(c, s, a, d) /\ UNCHANGED <<gvars, dvars, svars, fvars, tvars, xvars>>
    \/ \E old \in invs, s \in RollupStatuses :
          UpdateInvoiceRow(old, [old EXCEPT !.status = s])
              /\ UNCHANGED <<gvars, dvars, svars, fvars, tvars, xvars>>
    \/ \E old \in invs, a \in RollupAmounts :
          UpdateInvoiceRow(old, [old EXCEPT !.total_amount = a])
              /\ UNCHANGED <<gvars, dvars, svars, fvars, tvars, xvars>>
    \/ \E old \in invs, d \in IssueDates :
          UpdateInvoiceRow(old, [old EXCEPT !.issue_date = d])
              /\ UNCHANGED <<gvars, dvars, svars, fvars, tvars, xvars>>
    \/ \E old \in invs, c \in Customers :
          UpdateInvoiceRow(old, [old EXCEPT !.customer_id = c])
              /\ UNCHANGED <<gvars, dvars, svars, fvars, tvars, xvars>>
    \/ \E row \in invs :
          DeleteInvoiceRow(row) /\ UNCHANGED <<gvars, dvars, svars, fvars, tvars, xvars>>

SpecRollup == RollupInit /\ [][RollupNext]_vars

\* invoices rows the recomputation is run over: the example's and three of
\* customer B
RowPool ==
    ExampleInvoices \cup
    {[id |-> 4, customer_id |-> "B", status |-> "paid", total_amount |-> Amount(5000),
      issue_date |-> 2],
     [id |-> 5, customer_id |-> "B", status |-> "draft", total_amount |-> Amount(8000),
      issue_date |-> 1],
     [id |-> 6, customer_id |-> "B", status |-> "paid", total_amount |-> Amount(12000),
      issue_date |-> 1]}

\* any invoices of the pool, the customers rows not yet computed
RecomputeInit ==
    /\ ExtraIdle
    /\ gfam = "PO" /\ gstore = {} /\ gout = NotCalled
    /\ DocIdle
    /\ StockIdle
    /\ FormIdle
    /\ StoreIdle
    /\ invs \in SUBSET RowPool
    /\ cust = [c \in Customers |-> NoOrders]
    /\ rlast = NoRun

RecomputeNext ==
    \E row \in invs :
        TouchInvoice(row) /\ UNCHANGED <<gvars, dvars, svars, fvars, tvars, xvars>>

SpecRecompute == RecomputeInit /\ [][RecomputeNext]_vars

\* C18: after any sequence of invoice inserts, updates (of status,
\* total_amount, issue_date or customer_id) and deletes, for every customer
\* total_orders is the number of the customer's paid invoices, total_spent the
\* sum of their total_amount (0 when there is none) and last_order_date the
\* greatest issue_date over all the customer's invoices (empty when none).
C18_RollupInvariant ==
    \A c \in Customers : cust[c] = Rollup(c, invs)

\* the same without updates of customer_id: held in check by the trigger
\* recomputing for the customer of the new row
C18_RollupOfRowCustomer ==
    [][\A c \in Customers :
          (cust[c] = Rollup(c, invs) /\ cust'[c] # Rollup(c, invs')) =>
              \E old \in invs, new \in invs' :
                  old.id = new.id /\ old.customer_id = c /\ new.customer_id # c]_vars

\* C19: two recomputations in a row for the same customer with no invoice
\* change in between write the same total_orders, total_spent and
\* last_order_date; for the example's invoices they write 2, 200.00 and the
\* draft invoice's issue date.
C19_RollupIdempotent ==
    /\ rlast.runs = 2 => rlast.results[1] = rlast.results[2]
    /\ (rlast.runs >= 1 /\ rlast.customer = "A" /\ invs = ExampleInvoices) =>
           rlast.results[rlast.runs] =
               [total_orders |-> 2, total_spent |-> Amount(20000), last_order_date |-> 2]

\* the rollup of customer A ran twice in a row over the example's invoices
C19_Witness ==
    /\ rlast.runs = 2 /\ rlast.customer = "A"
    /\ invs = ExampleInvoices
    /\ cust["A"] = [total_orders |-> 2, total_spent |-> Amount(20000),
                    last_order_date |-> 2]

\* C20: a status update of a sales order or purchase order with a status of
\* the family's enumeration is never refused because of the current status
\* (it fails only when the storage call itself fails) and, when it succeeded,
\* the stored status is the one passed; the stored status of a purchase order
\* is always one of draft, sent, received, cancelled.
C20_StatusUnrestricted ==
    /\ (op.name = "status" /\ op.fam \in {"ORD", "PO"} /\ op.status \in Statuses(op.fam)) =>
           /\ op.step = "failed" => op.error = "storage"
           /\ op.step = "done" =>
                  \A h \in docs : (h.fam = op.fam /\ h.id = op.id) => h.status = op.status
    /\ \A h \in docs :
           h.fam = "PO" => h.status \in {"draft", "sent", "received", "cancelled"}

\* a cancelled sales order or purchase order was set back to draft
C20_Witness ==
    /\ op.name = "status" /\ op.step = "done" /\ op.fam \in {"ORD", "PO"}
    /\ op.status = "draft"
    /\ \E h0 \in op.hdr0 : h0.status = "cancelled"
    /\ \E h \in docs : h.fam = op.fam /\ h.id = op.id /\ h.status = "draft"


(***************************************************************************)
(* Row level security: profiles.role and the policies of the tables        *)
(***************************************************************************)
Users == {"u1", "u2"}

\* a request without a session
Anonymous == "anon"

Roles == {"admin", "manager", "user"}

ReportTables == {"financial_reports", "tax_reports"}

SettingsTables == {"company_settings", "app_settings", "integrations"}

BusinessTables ==
    {"products", "customers", "invoices", "invoice_items", "sales_orders",
     "sales_order_items", "purchase_orders", "purchase_order_items", "payments",
     "stock_movements"}

Commands == {"SELECT", "INSERT", "UPDATE", "DELETE"}

\* auth.role(): the role of the request's token
auth_role(caller) == IF caller \in Users THEN "authenticated" ELSE "anon"

\* get_current_user_role(): SELECT role FROM profiles WHERE id = auth.uid(),
\* NULL when no row has that id
get_current_user_role(caller) == IF caller \in Users THEN role[caller] ELSE "null"

\* the settings tables opened to managers as the report tables are
PolicyUsing_ManagersToo(t, caller) ==
    CASE t \in ReportTables \cup SettingsTables ->
            get_current_user_role(caller) \in {"admin", "manager"}
      [] t \in BusinessTables -> auth_role(caller) = "authenticated"

\* the USING expression of the table's one policy
PolicyUsing(t, caller) ==
    CASE t \in ReportTables -> get_current_user_role(caller) \in {"admin", "manager"}
      [] t \in SettingsTables -> get_current_user_role(caller) = "admin"
      [] t \in BusinessTables -> auth_role(caller) = "authenticated"

\* FOR ALL with a USING expression and no WITH CHECK: the expression decides
\* the rows a SELECT, UPDATE or DELETE sees and the rows an INSERT or UPDATE
\* may write
RowAllowed(t, cmd, caller) == cmd \in Commands /\ PolicyUsing(t, caller)

\* profiles FOR UPDATE USING (auth.uid() = id), no WITH CHECK and no column
\* of the row left out: the caller's own row, with any new values
ProfileUpdateAllowed(caller, target) == caller = target

AccessInit ==
    /\ gfam = "PO" /\ gstore = {} /\ gout = NotCalled
    /\ DocIdle
    /\ StockIdle
    /\ FormIdle
    /\ StoreIdle
    /\ RollupIdle
    /\ plist = <<>> /\ low = NotCalled
    /\ role \in [Users -> Roles]
    /\ acc = NoAccess
    /\ medit = DialogClosed
    /\ view = <<>>
    /\ pos = {} /\ fdata = NotGenerated

\* a SELECT, INSERT, UPDATE or DELETE on a table other than profiles
AccessRow(caller, t, cmd) ==
    /\ acc' = [kind |-> "row", caller |-> caller,
               caller_role |-> get_current_user_role(caller), table |-> t, cmd |-> cmd,
               target |-> "none", granted |-> RowAllowed(t, cmd, caller)]
    /\ UNCHANGED role

\* updateUser(target, { role: r }): profiles.update({ role: r }).eq('id',
\* target); a row the policy hides is not updated and no error is returned
UpdateProfileRole(caller, target, r) ==
    /\ acc' = [kind |-> "profile", caller |-> caller,
               caller_role |-> get_current_user_role(caller), table |-> "profiles",
               cmd |-> "UPDATE", target |-> target,
               granted |-> ProfileUpdateAllowed(caller, target)]
    /\ role' = IF ProfileUpdateAllowed(caller, target)
               THEN [role EXCEPT ![target] = r]
               ELSE role

AccessNext ==
    \/ \E caller \in Users \cup {Anonymous},
          t \in ReportTables \cup SettingsTables \cup BusinessTables, cmd \in Commands :
          AccessRow(caller, t, cmd) /\ UNCHANGED <<gvars, dvars, svars, fvars, tvars, cvars, lvars, evars, qvars, nvars>>
    \/ \E caller \in Users \cup {Anonymous}, target \in Users, r \in Roles :
          UpdateProfileRole(caller, target, r)
              /\ UNCHANGED <<gvars, dvars, svars, fvars, tvars, cvars, lvars, evars, qvars, nvars>>

SpecAccess == AccessInit /\ [][AccessNext]_vars

(***************************************************************************)
(* Editing a stock movement: EditStockMovementModal, updateStockMovement   *)
(***************************************************************************)
\* a reason column that is NULL
NullReason == "null"

\* texts typed into the reason field
ReasonTexts == {"", "recount", "damaged"}

\* the ledgers the dialog is opened on: a purchase of one unit and a sale of
\* one unit of the same product, with any reasons
EditLedgers ==
    {<<[id |-> 1, product |-> "p1", movement_type |-> "purchase", quantity_change |-> 1,
        stock_before |-> 0, stock_after |-> 1, reason |-> r1, movement_date |-> 1],
       [id |-> 2, product |-> "p1", movement_type |-> "sale", quantity_change |-> 0 - 1,
        stock_before |-> 1, stock_after |-> 0, reason |-> r2, movement_date |-> 2]>> :
         r1 \in {"", "recount", NullReason}, r2 \in {"recount", NullReason}}

\* editMovementSchema: z.object({ reason: z.string().optional() }); the parsed
\* data keeps the key reason and no other key of the form's values
editMovementSchema(values) == [k \in DOMAIN values \cap {"reason"} |-> values[k]]

\* .update(updates) on one row: the columns named in updates take their new
\* values, the others keep theirs
UpdatedRow(row, updates) ==
    [col \in DOMAIN row |-> IF col \in DOMAIN updates THEN updates[col] ELSE row[col]]

EditInit ==
    /\ gfam = "PO" /\ gstore = {} /\ gout = NotCalled
    /\ DocIdle
    /\ FormIdle
    /\ StoreIdle
    /\ RollupIdle
    /\ plist = <<>> /\ low = NotCalled
    /\ role = <<>> /\ acc = NoAccess
    /\ stock \in [Products -> 0..MaxStock]
    /\ mov \in EditLedgers
    /\ mid = 3
    /\ spc = [c \in Clients |-> "idle"]
    /\ sreq = [c \in Clients |-> NoStockRequest]
    /\ sel = [c \in Clients |-> NoSelection]
    /\ new_stock = [c \in Clients |-> 0]
    /\ medit = DialogClosed
    /\ view = <<>>
    /\ pos = {} /\ fdata = NotGenerated

\* the dialog opens on a movement of the list: form.reset({ reason:
\* movement.reason || '' })
OpenEditMovement(i) ==
    /\ ~medit.open
    /\ i \in 1..Len(mov)
    /\ medit' = [open |-> TRUE, id |-> mov[i].id,
                 reason |-> IF mov[i].reason = NullReason THEN "" ELSE mov[i].reason]
    /\ UNCHANGED svars

\* the reason textarea
ChangeReason(text) ==
    /\ medit.open
    /\ medit.reason # text
    /\ medit' = [medit EXCEPT !.reason = text]
    /\ UNCHANGED svars

\* updateStockMovement that brings the product's stock in line with the row
updateStockMovement_SyncsStock(id, updates, ok) ==
    /\ IF ok
       THEN /\ mov' = [i \in 1..Len(mov) |->
                          IF mov[i].id = id THEN UpdatedRow(mov[i], updates) ELSE mov[i]]
            /\ stock' = [p \in Products |->
                            IF \E i \in 1..Len(mov) : mov[i].id = id /\ mov[i].product = p
                            THEN (CHOOSE r \in {mov[i] : i \in 1..Len(mov)} : r.id = id).stock_after
                            ELSE stock[p]]
       ELSE UNCHANGED <<mov, stock>>
    /\ UNCHANGED <<mid, spc, sreq, sel, new_stock>>

\* updateStockMovement(id, updates): stock_movements.update(updates).eq('id',
\* id); its error is thrown, a missing row is none
updateStockMovement(id, updates, ok) ==
    /\ IF ok
       THEN mov' = [i \in 1..Len(mov) |->
                       IF mov[i].id = id THEN UpdatedRow(mov[i], updates) ELSE mov[i]]
       ELSE UNCHANGED mov
    /\ UNCHANGED <<stock, mid, spc, sreq, sel, new_stock>>

\* the dialog's onSubmit(data): updateStockMovement(movement.id, data), data
\* being the form's values as editMovementSchema parsed them; the dialog
\* closes when the call succeeded and stays open when it threw
SubmitEdit(ok) ==
    /\ medit.open
    /\ updateStockMovement(medit.id, editMovementSchema([reason |-> medit.reason]), ok)
    /\ medit' = IF ok THEN DialogClosed ELSE medit

\* the dialog is closed without saving
CloseEdit ==
    /\ medit.open
    /\ medit' = DialogClosed
    /\ UNCHANGED svars

EditNext ==
    \/ \E i \in 1..MaxMoves :
          OpenEditMovement(i) /\ UNCHANGED <<gvars, dvars, fvars, tvars, cvars, lvars, avars, qvars, nvars>>
    \/ \E text \in ReasonTexts :
          ChangeReason(text) /\ UNCHANGED <<gvars, dvars, fvars, tvars, cvars, lvars, avars, qvars, nvars>>
    \/ \E ok \in BOOLEAN :
          SubmitEdit(ok) /\ UNCHANGED <<gvars, dvars, fvars, tvars, cvars, lvars, avars, qvars, nvars>>
    \/ CloseEdit /\ UNCHANGED <<gvars, dvars, fvars, tvars, cvars, lvars, avars, qvars, nvars>>
    \/ \E id \in 1..MaxMoves :
          deleteStockMovement(id)
              /\ UNCHANGED <<gvars, dvars, fvars, tvars, cvars, lvars, avars, evars, qvars, nvars>>

SpecEdit == EditInit /\ [][EditNext]_vars

(***************************************************************************)
(* The purchase order list and its quick actions: PurchaseOrders.tsx       *)
(***************************************************************************)
\* the purchase orders of the list
ListedOrders == {1, 2}

\* fetchPurchaseOrders: the statuses of the stored purchase orders
fetchPurchaseOrders(rows) == [id \in {h.id : h \in rows} |-> (CHOOSE h \in rows : h.id = id).status]

QuickInit ==
    /\ gfam = "PO" /\ gstore = {} /\ gout = NotCalled
    /\ DocIdle
    /\ StockIdle
    /\ FormIdle
    /\ RollupIdle
    /\ plist = <<>> /\ low = NotCalled
    /\ role = <<>> /\ acc = NoAccess /\ medit = DialogClosed
    /\ pos = {} /\ fdata = NotGenerated
    /\ sfam = "PO"
    /\ \E st \in [ListedOrders -> Statuses("PO")] :
          docs = {HeaderRow("PO", id, HeaderTotals(<<>>), st[id]) : id \in ListedOrders}
    /\ lines = {}
    /\ nid = 3
    /\ pays = {}
    /\ op = NoOp
    /\ view = [c \in Clients |-> fetchPurchaseOrders(docs)]

\* the quick action the row of a purchase order with the shown status
\* offers: the status it sets, "none" when the row has no such button
QuickAction(shown) ==
    CASE shown = "draft" -> "sent"
      [] shown = "sent" -> "received"
      [] OTHER -> "none"

\* a click on Send or Mark Received in session c: handleStatusUpdate(po.id,
\* status), that is updatePOStatus and, when its update succeeded, its
\* fetchPurchaseOrders (fetched: that request succeeded too)
handleStatusUpdate(c, id, ok, fetched) ==
    /\ id \in DOMAIN view[c]
    /\ QuickAction(view[c][id]) # "none"
    /\ UpdateStatus("PO", id, QuickAction(view[c][id]), ok)
    /\ view' = IF ok /\ fetched
               THEN [view EXCEPT ![c] = fetchPurchaseOrders(docs')]
               ELSE view

\* the page is loaded again in session c
ReloadList(c) ==
    /\ op.step = "idle"
    /\ view[c] # fetchPurchaseOrders(docs)
    /\ view' = [view EXCEPT ![c] = fetchPurchaseOrders(docs)]
    /\ UNCHANGED tvars

QuickNext ==
    \/ \E c \in Clients, id \in ListedOrders, ok \in BOOLEAN, fetched \in BOOLEAN :
          handleStatusUpdate(c, id, ok, fetched)
              /\ UNCHANGED <<gvars, dvars, svars, fvars, cvars, lvars, avars, evars, nvars>>
    \/ \E c \in Clients :
          ReloadList(c) /\ UNCHANGED <<gvars, dvars, svars, fvars, cvars, lvars, avars, evars, nvars>>
    \/ StoreReturn /\ UNCHANGED <<gvars, dvars, svars, fvars, cvars, xvars>>

SpecQuick == QuickInit /\ [][QuickNext]_vars

\* ---------------------------------------------------------------------
\* failures of storage calls
\* ---------------------------------------------------------------------

\* C21: an operation in which a storage call failed does not return
\* successfully to its caller; in particular an update or delete whose delete
\* of the previous line items failed is reported as failed.
C21_FailuresReported ==
    op.step = "done" => ~op.deleteError

\* every failed storage call other than the unchecked delete of the items
\* ends the operation as failed: an operation that returns successfully after
\* a failed call is a sales order or purchase order update, or a sales order
\* delete
C21_OnlyItemDeleteUnreported ==
    (op.step = "done" /\ op.deleteError) =>
        /\ op.name \in {"update", "delete"}
        /\ ~DeleteErrorChecked(op.fam)


\* ---------------------------------------------------------------------
\* concurrent stock adjustments
\* ---------------------------------------------------------------------

\* the movement row a client's call inserted
MovementRows(c) == {mov[i] : i \in {j \in 1..Len(mov) : mov[j].id = sreq[c].rowid}}

\* C24: two stock adjustments of one product that start from the same
\* observed stock are not kept apart: when the second of them completes after
\* the first has completed, both have succeeded and the product's stock is
\* the stock_after of the one that wrote last, so the other one's change is
\* lost (the stock is never the observed stock plus both changes).
C24_LostUpdate ==
    [][\A c \in Clients, d \in Clients :
          /\ c # d
          /\ spc[c] = "update" /\ spc'[c] = "done" /\ IsAdjustmentCall(c)
          /\ spc[d] = "done" /\ IsAdjustmentCall(d)
          => \A rc \in MovementRows(c), rd \in MovementRows(d) :
                /\ rc.product = rd.product
                /\ rc.stock_before = rd.stock_before
                /\ stock[rd.product] = rd.stock_after
                => /\ stock'[rc.product] = rc.stock_after
                   /\ (rc.quantity_change # 0 /\ rd.quantity_change # 0) =>
                         stock'[rc.product] #
                             rc.stock_before + rc.quantity_change + rd.quantity_change
       ]_vars

\* both calls observed stock 0 and both completed successfully; the stock is
\* the stock_after of the movement that was inserted first
C24_Witness ==
    \E c \in Clients, d \in Clients :
        /\ c # d
        /\ spc[c] = "done" /\ spc[d] = "done"
        /\ sreq[c].via = "adjustment" /\ sreq[d].via = "adjustment"
        /\ sreq[c].error = "none" /\ sreq[d].error = "none"
        /\ sreq[c].rowid < sreq[d].rowid
        /\ \E rc \in MovementRows(c), rd \in MovementRows(d) :
              /\ rc.product = rd.product
              /\ rc.stock_before = 0 /\ rd.stock_before = 0
              /\ rc.stock_after = 1 /\ rd.stock_after = 0 - 1
              /\ stock[rc.product] = 1


\* ---------------------------------------------------------------------
\* the generator at the end of the family's width
\* ---------------------------------------------------------------------

\* C25: when the next numeric value has more digits than the family's
\* width, the generator returns a number of the family's form whose numeric
\* suffix is exactly the largest persisted suffix plus one, so it differs
\* from every persisted number.
C25_OverflowReturnsMaxPlusOne ==
    (gout # NotCalled /\ ~FitsWidth(gfam, gstore))
        => /\ gout.ok
           /\ Conforms(gfam, gout.val)
           /\ SuffixValue(gfam, gout.val) = MaxSuffix(gfam, gstore) + 1
           /\ gout.val \notin gstore

\* what the purchase-order function returns there: the first six digits of
\* the seven-digit value, a number smaller than the largest persisted one
C25_PurchaseOrderTruncated ==
    (gout # NotCalled /\ ~FitsWidth(gfam, gstore) /\ gfam = "PO")
        => /\ gout.ok
           /\ gout.val = PO \o SubSeq(IntToText(MaxSuffix(gfam, gstore) + 1), 1, WidthOf(gfam))
           /\ SuffixValue(gfam, gout.val) < MaxSuffix(gfam, gstore)


\* ---------------------------------------------------------------------
\* resubmitting a stored sales order
\* ---------------------------------------------------------------------

\* C28: a stored sales order opened in the edit dialog and submitted with no
\* field changed is handed to updateSalesOrder with the subtotal, tax_amount,
\* total_amount and items it is stored with, whatever its stored tax amount.
C28_UnchangedResubmit ==
    (sent.state = "sent" /\ sent.kind = "sales" /\ sent.orig.set) =>
        /\ sent.subtotal = sent.orig.subtotal
        /\ sent.tax_amount = sent.orig.tax_amount
        /\ sent.total_amount = sent.orig.total_amount
        /\ sent.items = sent.orig.items

\* what the unchanged resubmit of a sales order does send: the stored items
\* and subtotal, tax_amount 0 and total_amount = subtotal; the purchase
\* dialog, which reads the order's tax_rate, sends the stored header
C28_TaxDroppedOnResubmit ==
    (sent.state = "sent" /\ sent.orig.set) =>
        /\ sent.items = sent.orig.items
        /\ sent.subtotal = sent.orig.subtotal
        /\ sent.kind = "sales" =>
              /\ sent.tax_amount = 0
              /\ sent.total_amount = sent.orig.subtotal
        /\ sent.kind = "purchase" =>
              /\ sent.tax_amount = sent.orig.tax_amount
              /\ sent.total_amount = sent.orig.total_amount


(***************************************************************************)
(* The low-stock report: get_low_stock_products                            *)
(***************************************************************************)
ReportProducts == {"p1", "p2", "p3"}

\* an SQL value that may be NULL
Null == [null |-> TRUE, val |-> 0]

NotNull(v) == [null |-> FALSE, val |-> v]

\* NULLIF that hands back its first argument whatever the second is
NULLIF_Absent(a, b) == NotNull(a)

\* NULLIF(a, b): NULL when a = b, a otherwise
NULLIF(a, b) == IF a = b THEN Null ELSE NotNull(a)

\* stock::float / divisor: NULL for a NULL divisor, error 22012 (division by
\* zero) for divisor 0, else the quotient, kept as numerator and denominator
Quotient(dividend, divisor) ==
    IF divisor.null THEN [err |-> "none", null |-> TRUE, num |-> 0, den |-> 1]
    ELSE IF divisor.val = 0 THEN [err |-> "22012", null |-> TRUE, num |-> 0, den |-> 1]
    ELSE [err |-> "none", null |-> FALSE, num |-> dividend, den |-> divisor.val]

\* the sort key of a row: p.stock::float / NULLIF(p.low_stock_threshold, 0)
SortKey(row) == Quotient(row.stock, NULLIF(row.low_stock_threshold, 0))

\* ORDER BY ... ASC: k sorts strictly before l; NULL keys come last
SortsBefore(k, l) ==
    /\ ~k.null
    /\ \/ l.null
       \/ k.num * k.den * l.den * l.den < l.num * l.den * k.den * k.den

\* WHERE p.stock <= p.low_stock_threshold
Selected(rows) == {p \in DOMAIN rows : rows[p].stock <= rows[p].low_stock_threshold}

\* the orders in which the selected rows may be returned: every order of
\* them in which no row comes after one its key sorts strictly before
Orderings(rows) ==
    {r \in UNION {[1..n -> Selected(rows)] : n \in {Cardinality(Selected(rows))}} :
        /\ \A i \in 1..Len(r), j \in 1..Len(r) : i # j => r[i] # r[j]
        /\ \A i \in 1..Len(r), j \in 1..Len(r) :
              i < j => ~SortsBefore(SortKey(rows[r[j]]), SortKey(rows[r[i]]))}

\* the query: its rows in one of the orders ORDER BY allows, or the error of
\* a sort key that cannot be computed
get_low_stock_products(rows) ==
    IF \E p \in Selected(rows) : SortKey(rows[p]).err # "none"
    THEN {Raised("22012")}
    ELSE {Returned(r) : r \in Orderings(rows)}

ReportInit ==
    /\ gfam = "PO" /\ gstore = {} /\ gout = NotCalled
    /\ DocIdle
    /\ StockIdle
    /\ FormIdle
    /\ StoreIdle
    /\ RollupIdle
    /\ plist \in [ReportProducts ->
                    [stock : (0 - 1)..MaxLevel, low_stock_threshold : 0..MaxLevel]]
    /\ low = NotCalled
    /\ role = <<>> /\ acc = NoAccess /\ medit = DialogClosed /\ view = <<>>
    /\ pos = {} /\ fdata = NotGenerated

\* supabase.rpc('get_low_stock_products') on the products table plist
CallLowStock ==
    /\ low = NotCalled
    /\ low' \in get_low_stock_products(plist)
    /\ UNCHANGED plist

ReportNext ==
    CallLowStock /\ UNCHANGED <<gvars, dvars, svars, fvars, tvars, cvars, avars, evars, qvars, nvars>>

SpecReport == ReportInit /\ [][ReportNext]_vars

\* the ids the report returned
Reported == {low.val[i] : i \in 1..Len(low.val)}

\* C22: the low-stock report returns exactly the products with stock <=
\* low_stock_threshold, each once; of two returned products with non-zero
\* thresholds the one with the smaller ratio stock / low_stock_threshold
\* comes first; a threshold of 0 never makes the query fail.
C22_LowStockReport ==
    low # NotCalled =>
        /\ low.ok
        /\ Reported = {p \in ReportProducts : plist[p].stock <= plist[p].low_stock_threshold}
        /\ Len(low.val) = Cardinality(Reported)
        /\ \A i \in 1..Len(low.val), j \in 1..Len(low.val) :
              LET a == plist[low.val[i]]
                  b == plist[low.val[j]]
              IN  (/\ a.low_stock_threshold # 0
                   /\ b.low_stock_threshold # 0
                   /\ a.stock * b.low_stock_threshold < b.stock * a.low_stock_threshold)
                  => i < j

\* p1 (stock 1 of threshold 2), p2 (stock 0 of threshold 1) and p3 (stock 0,
\* threshold 0) are low; the report lists p2, p1 and then p3, and p3's
\* threshold 0 did not fail the query
C22_Witness ==
    /\ plist["p1"] = [stock |-> 1, low_stock_threshold |-> 2]
    /\ plist["p2"] = [stock |-> 0, low_stock_threshold |-> 1]
    /\ plist["p3"] = [stock |-> 0, low_stock_threshold |-> 0]
    /\ low.ok
    /\ low.val = <<"p2", "p1", "p3">>


\* ---------------------------------------------------------------------
\* access by role
\* ---------------------------------------------------------------------

C26_RoleChangedByAdminOnly ==
    [][\A u \in Users : role'[u] # role[u] => acc'.caller_role = "admin"]_vars

\* whose role a request through the API can change: the caller's own, and
\* nobody else's, whatever the caller's role is
C26_OnlyOwnRoleChanges ==
    [][\A u \in Users : role'[u] # role[u] => acc'.caller = u]_vars


\* ---------------------------------------------------------------------
\* editing a stock movement
\* ---------------------------------------------------------------------

\* the columns of a movement an edit may not touch
FixedColumns(row) ==
    <<row.id, row.product, row.movement_type, row.quantity_change, row.stock_before,
      row.stock_after, row.movement_date>>

\* C27: a submit of the edit dialog changes at most the reason of the edited
\* movement: every movement keeps its quantity_change, stock_before,
\* stock_after, movement_type, product and movement date, no other movement
\* changes at all, and the stock of every product stays what it was.
C27_EditChangesReasonOnly ==
    [][(medit.open /\ (medit' = DialogClosed \/ medit' = medit) /\ Len(mov') = Len(mov)) =>
          /\ stock' = stock
          /\ \A i \in 1..Len(mov) :
                /\ FixedColumns(mov'[i]) = FixedColumns(mov[i])
                /\ mov[i].id # medit.id => mov'[i] = mov[i]
       ]_vars

\* the purchase movement's reason was edited to "damaged"; the row keeps its
\* numbers, and the product's stock is still 0, not the row's stock_after
C27_Witness ==
    /\ medit = DialogClosed
    /\ Len(mov) = 2
    /\ mov[1].reason = "damaged"
    /\ mov[1].quantity_change = 1 /\ mov[1].stock_before = 0 /\ mov[1].stock_after = 1
    /\ mov[1].movement_type = "purchase"
    /\ mov[2].reason = NullReason
    /\ stock["p1"] = 0


\* ---------------------------------------------------------------------
\* quick actions of the purchase order list
\* ---------------------------------------------------------------------

\* the place of a status in the order draft, sent, received
Rank(status) ==
    CASE status = "draft" -> 1
      [] status = "sent" -> 2
      [] status = "received" -> 3
      [] OTHER -> 4

\* C29: a quick action of the purchase order list only moves the stored
\* status forward: whenever one has completed, the status it set is not
\* earlier in the order draft, sent, received than the status the purchase
\* order had before, and a received or cancelled purchase order is not
\* changed by any.
C29_QuickActionsOnlyForward ==
    (op.name = "status" /\ op.step = "done") =>
        \A h \in op.hdr0 :
            /\ Rank(op.status) >= Rank(h.status)
            /\ h.status \in {"received", "cancelled"} => op.status = h.status

\* what does hold: the status a quick action sets is the one after a status
\* some session's list showed for that purchase order, and a list shows
\* draft or sent only for a purchase order that had that status
C29_ForwardOfShownStatus ==
    [][\A h \in docs, k \in docs' :
          (h.id = k.id /\ h.status # k.status) =>
              \E c \in Clients : k.status = QuickAction(view[c][h.id])]_vars


(***************************************************************************)
(* The financial report: generateFinancialData                             *)
(***************************************************************************)
\* the purchase orders the report is generated over: one dated day 1 and one
\* dated day 2, each with any status the table accepts
PurchasePool ==
    {[id |-> 1, status |-> s, order_date |-> 1, total_amount |-> Amount(5000)] :
         s \in Statuses("PO")}
    \cup
    {[id |-> 2, status |-> s, order_date |-> 2, total_amount |-> Amount(8000)] :
         s \in Statuses("PO")}

\* the status the expenses query asks for, were it 'received'
ExpenseStatus_Received == "received"

\* .eq('status', 'completed') of the purchase_orders query
ExpenseStatus == "completed"

\* .gte(column, startDate).lte(column, endDate)
InRange(date, startDate, endDate) == date >= startDate /\ date <= endDate

\* generateFinancialData(startDate, endDate): the two selects, whose errors
\* are not read (read: the select returned its rows; otherwise data is null
\* and the sum is taken as 0), and the three figures
generateFinancialData(startDate, endDate, invoicesRead, purchasesRead) ==
    LET invoices == {r \in invs : /\ InRange(r.issue_date, startDate, endDate)
                                  /\ r.status = "paid"}
        purchaseOrders == {r \in pos : /\ InRange(r.order_date, startDate, endDate)
                                       /\ r.status = ExpenseStatus}
        totalRevenue == IF invoicesRead THEN SumAmounts(invoices) ELSE 0
        totalExpenses == IF purchasesRead THEN SumAmounts(purchaseOrders) ELSE 0
    IN  [called |-> TRUE, start_date |-> startDate, end_date |-> endDate,
         invoices_read |-> invoicesRead,
         total_revenue |-> totalRevenue,
         total_expenses |-> totalExpenses,
         net_profit |-> totalRevenue - totalExpenses]

FinanceInit ==
    /\ gfam = "PO" /\ gstore = {} /\ gout = NotCalled
    /\ DocIdle
    /\ StockIdle
    /\ FormIdle
    /\ StoreIdle
    /\ plist = <<>> /\ low = NotCalled
    /\ role = <<>> /\ acc = NoAccess /\ medit = DialogClosed /\ view = <<>>
    /\ invs \in SUBSET ExampleInvoices
    /\ cust = [c \in Customers |-> NoOrders]
    /\ rlast = NoRun
    /\ pos \in {P \in SUBSET PurchasePool : \A a \in P, b \in P : a.id = b.id => a = b}
    /\ fdata = NotGenerated

\* createReport's call of generateFinancialData for a date range
GenerateReport(startDate, endDate, invoicesRead, purchasesRead) ==
    /\ fdata' = generateFinancialData(startDate, endDate, invoicesRead, purchasesRead)
    /\ UNCHANGED <<pos, cvars>>

\* updatePOStatus(id, s) on the report's purchase orders: the table's CHECK
\* on status refuses a value that is none of its four (23514)
SetPurchaseStatus(id, s) ==
    /\ \E r \in pos : r.id = id /\ r.status # s
    /\ pos' = IF StatusAccepted("PO", "", s)
              THEN {IF r.id = id THEN [r EXCEPT !.status = s] ELSE r : r \in pos}
              ELSE pos
    /\ fdata' = NotGenerated
    /\ UNCHANGED cvars

FinanceNext ==
    \/ \E startDate \in IssueDates, endDate \in IssueDates, invoicesRead \in BOOLEAN,
          purchasesRead \in BOOLEAN :
          GenerateReport(startDate, endDate, invoicesRead, purchasesRead)
              /\ UNCHANGED <<gvars, dvars, svars, fvars, tvars, lvars, avars, evars, qvars>>
    \/ \E id \in 1..2, s \in Statuses("PO") \cup {ExpenseStatus} :
          SetPurchaseStatus(id, s)
              /\ UNCHANGED <<gvars, dvars, svars, fvars, tvars, lvars, avars, evars, qvars>>

SpecFinance == FinanceInit /\ [][FinanceNext]_vars

\* C30: generated financial data has total_expenses = the sum over the
\* purchase orders dated within the range whose status is 'completed' and
\* net_profit = total_revenue - total_expenses, total_revenue being the sum
\* over the paid invoices issued within the range (when the invoices were
\* read); no purchase order has status 'completed', so total_expenses is 0
\* and net_profit = total_revenue.
C30_ExpensesAlwaysZero ==
    /\ \A r \in pos : r.status # "completed"
    /\ fdata.called =>
          /\ fdata.total_expenses =
                SumAmounts({r \in pos : /\ InRange(r.order_date, fdata.start_date, fdata.end_date)
                                        /\ r.status = "completed"})
          /\ fdata.net_profit = fdata.total_revenue - fdata.total_expenses
          /\ fdata.invoices_read =>
                fdata.total_revenue =
                    SumAmounts({r \in invs : /\ InRange(r.issue_date, fdata.start_date,
                                                       fdata.end_date)
                                             /\ r.status = "paid"})
          /\ fdata.total_expenses = 0
          /\ fdata.net_profit = fdata.total_revenue

\* a report over days 1 to 2 with paid invoices of 120.00 and 80.00 and two
\* received purchase orders of 50.00 and 80.00: revenue 200.00, expenses 0,
\* net profit 200.00
C30_Witness ==
    /\ fdata.called
    /\ fdata.start_date = 1 /\ fdata.end_date = 2
    /\ \E a \in pos, b \in pos :
          /\ a.id = 1 /\ b.id = 2
          /\ a.status = "received" /\ b.status = "received"
    /\ fdata.total_revenue = Amount(20000)
    /\ fdata.total_expenses = 0
    /\ fdata.net_profit = Amount(20000)

====
